---------------------------- MODULE Spec2Model ----------------------------
(***************************************************************************)
(* A model of the CryptoOps analyzer scripts: the rule validator and the   *)
(* priority classifier of script 06, the peak-hour labels of scripts 02,   *)
(* 04, 05, 06 and 08, the data generator, the database loaders and main of *)
(* script 02, and the before/after projections of scripts 06, 07 and 08.   *)
(*                                                                         *)
(* Money (monto_usd) and fraud scores are floats rounded to two decimals   *)
(* in the code; here they are integers counted in hundredths, so 5000.01   *)
(* dollars is 500001.  Dates are day numbers counted from FECHA_INICIO.    *)
(***************************************************************************)
EXTENDS Integers, Sequences, FiniteSets, TLC

VARIABLES
    \* ValidadorAutomatico (script 06)
    stats,          \* self.stats
    txn,            \* the argument of the last validar_transaccion call
    resultado,      \* the dict the last validar_transaccion call returned
    \* OptimizadorHoraPico (script 06)
    colas,          \* self.colas
    txn_cola,       \* the argument of the last asignar_prioridad call
    prioridad,      \* what the last asignar_prioridad call returned
    retorno_colas,  \* the dict the last procesar_con_prioridades call returned
    lote_cola,      \* the rows that call received, in order
    \* The peak-hour label of one transaction in each script
    hora,           \* the hour of its timestamp_inicio
    es_hora_pico,   \* script 02, generar_transacciones
    periodo_04,     \* script 04, cargar_datos
    periodo_05,     \* script 05, main
    periodo_08,     \* script 08, crear_grafico_cuellos_botella
    en_hora_pico_06, \* script 06, whether the row is kept in txn_hora_pico
    \* The generator of script 02
    usuarios,       \* the rows of df_usuarios, in order
    transacciones,  \* the rows of df_transacciones, in order
    tasa_base_error, \* tasa_base_error of the last row, in percent
    \* main of script 02 and the three loaders
    pc_main,        \* where main is: "ejecutando", "cargando" or "fin"
    pasos,          \* the steps main started, in order, each with its outcome
    retorno_main,   \* what main returned
    n_filas,        \* len() of df_usuarios, df_transacciones and df_metricas
    cargador,       \* the table of the loader being run
    pc_carga,       \* where that loader is
    i_lote,         \* the loop variable i of cargar_transacciones_db
    conexion,       \* conn of the loader: "ninguna", "abierta", "cerrada"
    cursor,         \* cursor of the loader: "ninguno", "abierto", "cerrado"
    pendientes,     \* rows sent on conn and not yet committed
    tabla,          \* committed rows of each table
    lanzada,        \* the exception raised inside the try block
    propagada,      \* the exception that left the loader
    llamadas_db,    \* the driver calls of the loader being run, in order
    \* The before/after projections of scripts 06, 07 and 08
    df_cargado,     \* the rows the scripts read from the database
    comparativa_06, \* simular_optimizaciones: the BEFORE and AFTER figures
    proyeccion_07,  \* crear_visualizacion_before_after: the same
    kpis_08,        \* calcular_kpis: kpis_before and kpis_after
    \* generar_metricas_operativas of script 02
    df_transacciones, \* its parameter, the rows of the dataframe in order
    df_metricas,    \* the rows of the dataframe it returns, in order
    \* main of verificar_schemas.py
    pc_esquema,     \* the section of main that runs next
    encontrado,     \* tables, views, triggers, index_map, fks and the
                    \* outcome of the insertion test
    checks,         \* tables_ok, ..., insert_ok, each valid once computed
    sentencias,     \* the statements of the insertion test, in order
    reporte,        \* the line printed by the final report
    db_antes,       \* the rows of usuarios and transacciones at connect
    db,             \* their committed rows, and the rows and the state of
                    \* the transaction open on conn
    \* The choice of the user of a transaction in generar_transacciones
    df_usuarios,    \* the parameter df_usuarios, its rows in order
    candidatos,     \* the list passed to random.choice
    user_id,        \* the user_id it returned
    \* ValidadorAutomatico.procesar_lote
    lote_validador, \* the rows of its parameter transacciones, in order
    resultados,     \* the rows of the dataframe it returns, in order
    \* Script 03: main and ejecutar_query_y_exportar
    pc_analisis,    \* where main is
    conn,           \* conn of main: "ninguna", "abierta", "abortada" (its
                    \* transaction has a failed statement), "cerrada"
    intentadas,     \* the calls main made of ejecutar_query_y_exportar
    llamada,        \* the last call of ejecutar_query_y_exportar
    propagada_03,   \* the exception that left main
    llamadas_03     \* the driver and pandas calls of the script, in order

valVars == <<stats, txn, resultado>>
colaVars == <<colas, txn_cola, prioridad, retorno_colas, lote_cola>>
horaVars ==
    <<hora, es_hora_pico, periodo_04, periodo_05, periodo_08, en_hora_pico_06>>

genVars == <<usuarios, transacciones, tasa_base_error>>

mainVars == <<pc_main, pasos, retorno_main, n_filas>>
cargaVars ==
    <<cargador, pc_carga, i_lote, conexion, cursor, pendientes, tabla,
      lanzada, propagada, llamadas_db>>

proyVars == <<df_cargado, comparativa_06, proyeccion_07, kpis_08>>

metVars == <<df_transacciones, df_metricas>>

esqVars ==
    <<pc_esquema, encontrado, checks, sentencias, reporte, db_antes, db>>

eleVars == <<df_usuarios, candidatos, user_id>>

loteVars == <<lote_validador, resultados>>

anaVars ==
    <<pc_analisis, conn, intentadas, llamada, propagada_03, llamadas_03>>

otrosVars == <<metVars, esqVars, eleVars, loteVars, anaVars>>

vars ==
    <<valVars, colaVars, horaVars, genVars, mainVars, cargaVars, proyVars,
      otrosVars>>

Nulo == "None"

\* No call was made yet: the argument and the returned dict are absent.
SinTxn ==
    [nivel_verificacion |-> Nulo, monto_usd |-> 0, score_fraude |-> 0,
     metodo_pago |-> Nulo]
SinResultado == [resultado |-> Nulo, motivo |-> Nulo, tiempo |-> 0]

\* Hundredths per unit: monto_usd and score_fraude carry two decimals.
Centesimos == 100

-----------------------------------------------------------------------------
(* Script 06: ValidadorAutomatico *)

\* _cargar_reglas
monto_maximo_auto == 10000
score_fraude_maximo == 30
metodos_pago_permitidos == {"transferencia", "wallet_crypto"}
tiempo_validacion_auto == 5
tiempo_validacion_manual == 300

niveles_seguros == {"intermedio", "completo"}

\* The values the columns of a loaded row can take.
Niveles == {"basico", "intermedio", "completo"}
MetodosPago == {"transferencia", "tarjeta", "wallet_crypto"}
MontosMuestra == {9999, 10000, 500000, 500001, 1000000, 1000001}
ScoresMuestra == {0, 3000, 3001, 10000}

TxnValidador ==
    [nivel_verificacion : Niveles, monto_usd : MontosMuestra,
     score_fraude : ScoresMuestra, metodo_pago : MetodosPago]

\* How many validar_transaccion calls one validator instance receives.
MaxProcesadas == 3

stats0 ==
    [procesadas |-> 0, aprobadas_automaticamente |-> 0,
     requieren_revision_manual |-> 0, rechazadas_automaticamente |-> 0,
     tiempo_ahorrado |-> 0]

\* The rule that rejects t first, 0..3 in the order of the code, or 4 when
\* no rule rejects it.
ReglaMontoLaxa(t) == t.monto_usd >= monto_maximo_auto * Centesimos
ReglaMonto(t) == t.monto_usd > monto_maximo_auto * Centesimos

PrimeraReglaFallidaMontoPrimero(t) ==
    IF ReglaMonto(t) THEN 1
    ELSE IF t.nivel_verificacion \notin niveles_seguros THEN 0
    ELSE IF t.score_fraude > score_fraude_maximo * Centesimos THEN 2
    ELSE IF t.metodo_pago \notin metodos_pago_permitidos THEN 3
    ELSE 4

PrimeraReglaFallida(t) ==
    IF t.nivel_verificacion \notin niveles_seguros THEN 0
    ELSE IF ReglaMonto(t) THEN 1
    ELSE IF t.score_fraude > score_fraude_maximo * Centesimos THEN 2
    ELSE IF t.metodo_pago \notin metodos_pago_permitidos THEN 3
    ELSE 4

MotivoDeRegla(r) ==
    CASE r = 0 -> "Nivel de usuario insuficiente"
      [] r = 1 -> "Monto excede limite automatico"
      [] r = 2 -> "Score de fraude alto"
      [] r = 3 -> "Metodo de pago requiere revision"
      [] OTHER -> "Validacion automatica exitosa"

\* The dict validar_transaccion returns for t.
validar_retorno_tiempo_manual(t) ==
    LET r == PrimeraReglaFallida(t) IN
    [resultado |-> IF r < 4 THEN "revision_manual" ELSE "aprobada",
     motivo |-> MotivoDeRegla(r),
     tiempo |-> tiempo_validacion_manual]

validar_retorno(t) ==
    LET r == PrimeraReglaFallida(t) IN
    IF r < 4
    THEN [resultado |-> "revision_manual", motivo |-> MotivoDeRegla(r),
          tiempo |-> tiempo_validacion_manual]
    ELSE [resultado |-> "aprobada", motivo |-> MotivoDeRegla(r),
          tiempo |-> tiempo_validacion_auto]

\* self.stats after validar_transaccion(t) ran on stats s.
validar_stats_sin_contar_revision(s, t) ==
    LET s1 == [s EXCEPT !.procesadas = @ + 1] IN
    IF PrimeraReglaFallida(t) < 4
    THEN s1
    ELSE [s1 EXCEPT !.aprobadas_automaticamente = @ + 1,
                    !.tiempo_ahorrado =
                        @ + (tiempo_validacion_manual - tiempo_validacion_auto)]

validar_stats(s, t) ==
    LET s1 == [s EXCEPT !.procesadas = @ + 1] IN
    IF PrimeraReglaFallida(t) < 4
    THEN [s1 EXCEPT !.requieren_revision_manual = @ + 1]
    ELSE [s1 EXCEPT !.aprobadas_automaticamente = @ + 1,
                    !.tiempo_ahorrado =
                        @ + (tiempo_validacion_manual - tiempo_validacion_auto)]

InitValidador ==
    /\ stats = stats0
    /\ txn = SinTxn
    /\ resultado = SinResultado

ValidarTransaccion ==
    /\ stats.procesadas < MaxProcesadas
    /\ \E t \in TxnValidador :
        /\ txn' = t
        /\ resultado' = validar_retorno(t)
        /\ stats' = validar_stats(stats, t)
    /\ UNCHANGED <<colaVars, horaVars, genVars, mainVars,
                   cargaVars, proyVars, otrosVars>>

-----------------------------------------------------------------------------
(* Script 06: OptimizadorHoraPico *)

MontosCola == {9999, 10000, 500000, 500001}
TxnCola == [monto_usd : MontosCola, nivel_verificacion : Niveles]
SinTxnCola == [monto_usd |-> 0, nivel_verificacion |-> Nulo]

\* The rows of the batches of procesar_con_prioridades: one of high priority
\* by its amount, one by its level, one normal and one of low priority.
TxnColaLote ==
    {[monto_usd |-> 500001, nivel_verificacion |-> "basico"],
     [monto_usd |-> 10000, nivel_verificacion |-> "completo"],
     [monto_usd |-> 500000, nivel_verificacion |-> "intermedio"],
     [monto_usd |-> 9999, nivel_verificacion |-> "basico"]}

\* The longest batch of one call, and the most rows the queues hold.
MaxLote == 2
MaxEnCola == 2

Prioridades == {"alta_prioridad", "normal", "baja_prioridad"}

\* The amount above which a transaction is of high priority, and the one
\* below which a basic user's transaction is of low priority.
umbral_alta == 5000
umbral_baja == 100

EsAltaLaxa(t) ==
    t.monto_usd >= umbral_alta * Centesimos \/ t.nivel_verificacion = "completo"
EsAlta(t) ==
    t.monto_usd > umbral_alta * Centesimos \/ t.nivel_verificacion = "completo"

asignar_prioridad(t) ==
    IF EsAlta(t) THEN "alta_prioridad"
    ELSE IF t.monto_usd < umbral_baja * Centesimos
            /\ t.nivel_verificacion = "basico"
         THEN "baja_prioridad"
         ELSE "normal"

tiempos_procesamiento ==
    [alta_prioridad |-> 30, normal |-> 45, baja_prioridad |-> 60]

\* self.colas after the rows of lote were appended one by one.
EncolarEnVacias(c, lote) ==
    [p \in DOMAIN c |->
        SelectSeq(lote, LAMBDA t : asignar_prioridad(t) = p)]

RECURSIVE Encolar(_, _)
Encolar(c, lote) ==
    IF lote = <<>> THEN c
    ELSE LET p == asignar_prioridad(Head(lote)) IN
         Encolar([c EXCEPT ![p] = Append(@, Head(lote))], Tail(lote))

EnCola(c) ==
    Len(c.alta_prioridad) + Len(c.normal) + Len(c.baja_prioridad)

tiempo_total_estimado(c) ==
    Len(c.alta_prioridad) * tiempos_procesamiento.alta_prioridad
    + Len(c.normal) * tiempos_procesamiento.normal
    + Len(c.baja_prioridad) * tiempos_procesamiento.baja_prioridad

Distribucion(c) == [p \in Prioridades |-> Len(c[p])]

SinRetornoColas ==
    [tiempo_total |-> 0, distribucion |-> [p \in Prioridades |-> 0]]

\* Sequences over S of length 0..n.
Lotes(S, n) == UNION {[1..k -> S] : k \in 0..n}

InitColas ==
    /\ colas = [p \in Prioridades |-> <<>>]
    /\ txn_cola = SinTxnCola
    /\ prioridad = Nulo
    /\ retorno_colas = SinRetornoColas
    /\ lote_cola = <<>>

AsignarPrioridad ==
    /\ \E t \in TxnCola :
        /\ txn_cola' = t
        /\ prioridad' = asignar_prioridad(t)
    /\ UNCHANGED <<colas, retorno_colas, lote_cola>>
    /\ UNCHANGED <<valVars, horaVars, genVars, mainVars,
                   cargaVars, proyVars, otrosVars>>

ProcesarConPrioridades ==
    /\ \E lote \in Lotes(TxnColaLote, MaxLote) :
        /\ EnCola(colas) + Len(lote) <= MaxEnCola
        /\ lote_cola' = lote
        /\ colas' = Encolar(colas, lote)
        /\ retorno_colas' =
              [tiempo_total |-> tiempo_total_estimado(colas'),
               distribucion |-> Distribucion(colas')]
    /\ UNCHANGED <<txn_cola, prioridad>>
    /\ UNCHANGED <<valVars, horaVars, genVars, mainVars,
                   cargaVars, proyVars, otrosVars>>

-----------------------------------------------------------------------------
(* The peak-hour window, as each script writes it *)

Horas == 0..23

Etiqueta(b) == IF b THEN "True" ELSE "False"

\* 02_crear_datos.py: es_hora_pico = hora >= 18 and hora <= 23
EsHoraPico02(h) == h >= 18 /\ h <= 23

\* 04_visualizaciones.py: 'Hora Pico' if 18 <= x <= 23 else 'Hora Normal'
Periodo04(x) == IF 18 <= x /\ x <= 23 THEN "Hora Pico" ELSE "Hora Normal"

\* 05_analisis_cuellos_botella.py: the same lambda
Periodo05(x) == IF 18 <= x /\ x <= 23 THEN "Hora Pico" ELSE "Hora Normal"

\* 08_dashboard_ejecutivo.py: the same lambda
Periodo08(x) == IF 18 <= x /\ x <= 23 THEN "Hora Pico" ELSE "Hora Normal"

\* pandas Series.between(left, right): both ends inclusive by default.
BetweenExclusivo(x, left, right) == left <= x /\ x < right
Between(x, left, right) == left <= x /\ x <= right

\* 06_optimizacion_batch_processing.py: df[df['hora'].between(18, 23)]
EnHoraPico06(h) == Between(h, 18, 23)

InitHora ==
    /\ hora = 0
    /\ es_hora_pico = Nulo
    /\ periodo_04 = Nulo
    /\ periodo_05 = Nulo
    /\ periodo_08 = Nulo
    /\ en_hora_pico_06 = Nulo

\* generar_transacciones draws the hour (60% of the draws from 18..23, the
\* rest from 0..23) and computes its own flag; the row is then stored.
GenerarHora ==
    /\ \E h \in (18..23) \cup Horas :
        /\ hora' = h
        /\ es_hora_pico' = Etiqueta(EsHoraPico02(h))
    /\ periodo_04' = Nulo
    /\ periodo_05' = Nulo
    /\ periodo_08' = Nulo
    /\ en_hora_pico_06' = Nulo
    /\ UNCHANGED <<valVars, colaVars, genVars, mainVars,
                   cargaVars, proyVars, otrosVars>>

Etiquetar04 ==
    /\ es_hora_pico # Nulo
    /\ periodo_04' = Periodo04(hora)
    /\ UNCHANGED <<hora, es_hora_pico, periodo_05, periodo_08, en_hora_pico_06>>
    /\ UNCHANGED <<valVars, colaVars, genVars, mainVars,
                   cargaVars, proyVars, otrosVars>>

Etiquetar05 ==
    /\ es_hora_pico # Nulo
    /\ periodo_05' = Periodo05(hora)
    /\ UNCHANGED <<hora, es_hora_pico, periodo_04, periodo_08, en_hora_pico_06>>
    /\ UNCHANGED <<valVars, colaVars, genVars, mainVars,
                   cargaVars, proyVars, otrosVars>>

Etiquetar08 ==
    /\ es_hora_pico # Nulo
    /\ periodo_08' = Periodo08(hora)
    /\ UNCHANGED <<hora, es_hora_pico, periodo_04, periodo_05, en_hora_pico_06>>
    /\ UNCHANGED <<valVars, colaVars, genVars, mainVars,
                   cargaVars, proyVars, otrosVars>>

FiltrarHoraPico06 ==
    /\ es_hora_pico # Nulo
    /\ en_hora_pico_06' = Etiqueta(EnHoraPico06(hora))
    /\ UNCHANGED <<hora, es_hora_pico, periodo_04, periodo_05, periodo_08>>
    /\ UNCHANGED <<valVars, colaVars, genVars, mainVars,
                   cargaVars, proyVars, otrosVars>>

-----------------------------------------------------------------------------
(* Script 02: generar_usuarios and generar_transacciones *)

\* Day numbers: FECHA_INICIO = datetime(2024, 7, 1) is day 0 and
\* FECHA_FIN = datetime(2024, 12, 31) is day 183, both at 00:00:00.
FECHA_INICIO == 0
FECHA_FIN == 183

\* The rows generated in one run (the parameters n of both functions).
MaxUsuarios == 1
MaxTransacciones == 1

\* dias_atras = min(int(np.random.exponential(180)), 545)
max_dias_atras == 545
DiasAtrasMuestra == {0, 600}
EstadosCuenta == {"activa", "suspendida", "cerrada"}

Min(a, b) == IF a < b THEN a ELSE b

\* random.randint(0, (FECHA_FIN - FECHA_INICIO).days), at its two ends
DiasDesdeInicioMuestra == {0, FECHA_FIN - FECHA_INICIO}
\* random.randint(0, 30), at its two ends
max_dias_ajuste == 30
AjusteMuestra == {0, max_dias_ajuste}
\* hora, minute and second of one row: the hour is drawn from 18..23 or
\* from 0..23, minute and second from 0..59
RelojMuestra == {<<0, 0, 0>>, <<17, 59, 59>>, <<18, 0, 0>>}

\* monto_usd by level: round(random.uniform(a, b), 2), in hundredths
MontosDeNivel(nivel) ==
    CASE nivel = "basico" -> {10 * Centesimos, 1000 * Centesimos}
      [] nivel = "intermedio" -> {100 * Centesimos, 5000 * Centesimos}
      [] OTHER -> {5000 * Centesimos, 5000 * Centesimos + 1,
                   20000 * Centesimos}

umbral_validacion == 5000

RequiereValidacionLaxa(monto) == monto >= umbral_validacion * Centesimos
RequiereValidacion(monto) == monto > umbral_validacion * Centesimos

\* The list of six strings of the failing branch; one stands for all.
motivos_fallo == {"Fondos insuficientes"}
ConfirmacionesMuestra == {1, 12}

\* tasa_base_error in percent: 5, plus 10 in the peak hours, plus 5 when the
\* row requires validation.
TasaBaseErrorSinPico(pico, requiere_validacion) ==
    5 + (IF requiere_validacion THEN 5 ELSE 0)
TasaBaseError(pico, requiere_validacion) ==
    5 + (IF pico THEN 10 ELSE 0) + (IF requiere_validacion THEN 5 ELSE 0)

\* random.random() in percent, on both sides of the least and of the greatest
\* tasa_base_error
AzarMuestra == {4, 5, 19, 20}

\* usuarios_activos: the user_id of the rows whose estado_cuenta is 'activa'
UsuariosTodos(us) == {us[k].user_id : k \in 1..Len(us)}
usuarios_activos(us) ==
    {us[k].user_id : k \in {j \in 1..Len(us) : us[j].estado_cuenta = "activa"}}

\* df_usuarios[df_usuarios['user_id'] == user_id].iloc[0]
UsuarioDe(us, uid) ==
    us[CHOOSE k \in 1..Len(us) :
          /\ us[k].user_id = uid
          /\ \A j \in 1..(k - 1) : us[j].user_id # uid]

\* The day of the transaction: the drawn day, moved to the registration day
\* plus the drawn adjustment when it falls before the registration.
FechaBaseSinAjuste(registro, dias_desde_inicio, ajuste) ==
    FECHA_INICIO + dias_desde_inicio
FechaBase(registro, dias_desde_inicio, ajuste) ==
    LET fecha_base == FECHA_INICIO + dias_desde_inicio IN
    IF fecha_base < registro THEN registro + ajuste ELSE fecha_base

\* The outcome fields of a row; falla is random.random() < tasa_base_error.
ResultadoFallidaConHash(motivo) ==
    [estado |-> "fallida", motivo_fallo |-> motivo,
     hash_blockchain |-> "sha256", confirmaciones_blockchain |-> 0]
ResultadoFallida(motivo) ==
    [estado |-> "fallida", motivo_fallo |-> motivo,
     hash_blockchain |-> Nulo, confirmaciones_blockchain |-> 0]
ResultadoExitosa(confirmaciones) ==
    [estado |-> "exitosa", motivo_fallo |-> Nulo,
     hash_blockchain |-> "sha256",
     confirmaciones_blockchain |-> confirmaciones]

InitGen ==
    /\ usuarios = <<>>
    /\ transacciones = <<>>
    /\ tasa_base_error = 0

\* One iteration of the loop of generar_usuarios.
GenerarUsuario ==
    /\ transacciones = <<>>
    /\ Len(usuarios) < MaxUsuarios
    /\ \E exponencial \in DiasAtrasMuestra, nivel \in Niveles,
          estado \in EstadosCuenta :
        LET dias_atras == Min(exponencial, max_dias_atras) IN
        usuarios' = Append(usuarios,
            [user_id |-> Len(usuarios) + 1,
             fecha_registro |-> FECHA_FIN - dias_atras,
             nivel_verificacion |-> nivel,
             estado_cuenta |-> estado])
    /\ UNCHANGED <<transacciones, tasa_base_error>>
    /\ UNCHANGED <<valVars, colaVars, horaVars, mainVars,
                   cargaVars, proyVars, otrosVars>>

\* One iteration of the loop of generar_transacciones; with no active user
\* random.choice raises and no row is produced.
GenerarTransaccion ==
    /\ Len(transacciones) < MaxTransacciones
    /\ \E uid \in usuarios_activos(usuarios),
          dias_desde_inicio \in DiasDesdeInicioMuestra,
          ajuste \in AjusteMuestra, reloj \in RelojMuestra,
          azar \in AzarMuestra :
        LET usuario == UsuarioDe(usuarios, uid)
            fecha_base == FechaBase(usuario.fecha_registro,
                                    dias_desde_inicio, ajuste)
        IN
        \E monto_usd \in MontosDeNivel(usuario.nivel_verificacion) :
          LET tasa == TasaBaseError(EsHoraPico02(reloj[1]),
                                    RequiereValidacion(monto_usd))
          IN
          \E res \in IF azar < tasa
                    THEN {ResultadoFallida(m) : m \in motivos_fallo}
                    ELSE {ResultadoExitosa(c) : c \in ConfirmacionesMuestra} :
          /\ tasa_base_error' = tasa
          /\ transacciones' = Append(transacciones,
                [transaction_id |-> Len(transacciones) + 1,
                 user_id |-> uid,
                 monto_usd |-> monto_usd,
                 timestamp_inicio |->
                     [dia |-> fecha_base, hora |-> reloj[1],
                      minuto |-> reloj[2], segundo |-> reloj[3]],
                 estado |-> res.estado,
                 motivo_fallo |-> res.motivo_fallo,
                 requiere_validacion_manual |->
                     RequiereValidacion(monto_usd),
                 hash_blockchain |-> res.hash_blockchain,
                 confirmaciones_blockchain |->
                     res.confirmaciones_blockchain])
    /\ UNCHANGED usuarios
    /\ UNCHANGED <<valVars, colaVars, horaVars, mainVars,
                   cargaVars, proyVars, otrosVars>>

-----------------------------------------------------------------------------
(* Script 02: main and cargar_usuarios_db, cargar_transacciones_db,
   cargar_metricas_db.  Rows are counted, not named: every loader sends its
   rows in the order of its dataframe, so a count of committed rows names
   the rows. *)

Tablas == {"usuarios", "transacciones", "metricas"}

\* The calls of main's try block, in order.
OrdenMainTransaccionesPrimero ==
    <<"generar_usuarios", "generar_transacciones",
      "generar_metricas_operativas", "guardar_csv",
      "cargar_transacciones_db", "cargar_usuarios_db", "cargar_metricas_db">>
OrdenMain ==
    <<"generar_usuarios", "generar_transacciones",
      "generar_metricas_operativas", "guardar_csv",
      "cargar_usuarios_db", "cargar_transacciones_db", "cargar_metricas_db">>

TablaDe(paso) ==
    CASE paso = "cargar_usuarios_db" -> "usuarios"
      [] paso = "cargar_transacciones_db" -> "transacciones"
      [] paso = "cargar_metricas_db" -> "metricas"
      [] OTHER -> Nulo

\* The dataframe a generation step produces, and sampled lengths of it.
DataframeDe(paso) ==
    CASE paso = "generar_usuarios" -> "usuarios"
      [] paso = "generar_transacciones" -> "transacciones"
      [] paso = "generar_metricas_operativas" -> "metricas"
      [] OTHER -> Nulo

batch_size == 5000

FilasMuestra(df) ==
    CASE df = "usuarios" -> {1, 3}
      [] df = "transacciones" -> {1, batch_size, batch_size + 1,
                                  2 * batch_size + 1}
      [] OTHER -> {2}

PasoSiguiente == OrdenMain[Len(pasos) + 1]

InitMain ==
    /\ pc_main = "ejecutando"
    /\ pasos = <<>>
    /\ retorno_main = Nulo
    /\ n_filas = [t \in Tablas |-> 0]

InitCarga ==
    /\ cargador = Nulo
    /\ pc_carga = "inactivo"
    /\ i_lote = 0
    /\ conexion = "ninguna"
    /\ cursor = "ninguno"
    /\ pendientes = 0
    /\ tabla = [t \in Tablas |-> 0]
    /\ lanzada = Nulo
    /\ propagada = Nulo
    /\ llamadas_db = <<>>

\* Steps 1 to 4 of main: a generator or the CSV backup runs to its end, or
\* raises, and then the handler of main prints and returns False.
PasoGenerar ==
    /\ pc_main = "ejecutando"
    /\ Len(pasos) < Len(OrdenMain)
    /\ TablaDe(PasoSiguiente) = Nulo
    /\ \/ /\ pasos' = Append(pasos, [paso |-> PasoSiguiente, estado |-> "ok"])
          /\ IF DataframeDe(PasoSiguiente) # Nulo
             THEN \E n \in FilasMuestra(DataframeDe(PasoSiguiente)) :
                    n_filas' = [n_filas EXCEPT ![DataframeDe(PasoSiguiente)] = n]
             ELSE UNCHANGED n_filas
          /\ UNCHANGED <<pc_main, retorno_main>>
       \/ /\ pasos' = Append(pasos, [paso |-> PasoSiguiente, estado |-> "error"])
          /\ pc_main' = "fin"
          /\ retorno_main' = "False"
          /\ UNCHANGED n_filas
    /\ UNCHANGED cargaVars
    /\ UNCHANGED <<valVars, colaVars, horaVars, genVars, proyVars, otrosVars>>

\* Step 5 of main: the call of the next loader.
LlamarCargador ==
    /\ pc_main = "ejecutando"
    /\ Len(pasos) < Len(OrdenMain)
    /\ TablaDe(PasoSiguiente) # Nulo
    /\ pasos' = Append(pasos, [paso |-> PasoSiguiente, estado |-> "en_curso"])
    /\ pc_main' = "cargando"
    /\ cargador' = TablaDe(PasoSiguiente)
    /\ pc_carga' = "connect"
    /\ i_lote' = 0
    /\ conexion' = "ninguna"
    /\ cursor' = "ninguno"
    /\ pendientes' = 0
    /\ lanzada' = Nulo
    /\ propagada' = Nulo
    /\ llamadas_db' = <<>>
    /\ UNCHANGED <<tabla, retorno_main, n_filas>>
    /\ UNCHANGED <<valVars, colaVars, horaVars, genVars, proyVars, otrosVars>>

\* The rows one execute_batch call sends: all of datos, or for
\* cargar_transacciones_db the slice datos[i:i + batch_size].
FilasDelLote ==
    IF cargador = "transacciones"
    THEN Min(batch_size, n_filas[cargador] - i_lote)
    ELSE n_filas[cargador]

\* for i in range(0, len(datos), batch_size): whether the loop has an
\* iteration for i.
QuedaLote(i) == i < n_filas["transacciones"]

\* conn = psycopg2.connect(**DB_CONFIG); cursor = conn.cursor(): before the
\* try block, so an exception of connect leaves the function as it is.
Conectar ==
    /\ pc_carga = "connect"
    /\ \/ /\ conexion' = "abierta"
          /\ cursor' = "abierto"
          /\ llamadas_db' = llamadas_db \o <<"connect", "cursor">>
          /\ pc_carga' = IF cargador = "transacciones" /\ ~QuedaLote(0)
                         THEN "finally" ELSE "execute"
          /\ UNCHANGED propagada
       \/ /\ propagada' = "connect"
          /\ llamadas_db' = Append(llamadas_db, "connect")
          /\ pc_carga' = "propagada"
          /\ UNCHANGED <<conexion, cursor>>
    /\ UNCHANGED <<cargador, i_lote, pendientes, tabla, lanzada>>
    /\ UNCHANGED mainVars
    /\ UNCHANGED <<valVars, colaVars, horaVars, genVars, proyVars, otrosVars>>

\* A loop that commits once, after its last slice.
CommitAlFinal ==
    /\ pc_carga = "commit"
    /\ \/ /\ IF cargador = "transacciones" /\ QuedaLote(i_lote + batch_size)
             THEN UNCHANGED <<tabla, pendientes>>
             ELSE /\ tabla' = [tabla EXCEPT ![cargador] = @ + pendientes]
                  /\ pendientes' = 0
          /\ i_lote' = IF cargador = "transacciones"
                       THEN i_lote + batch_size ELSE i_lote
          /\ pc_carga' = IF cargador = "transacciones"
                            /\ QuedaLote(i_lote + batch_size)
                         THEN "execute" ELSE "finally"
          /\ UNCHANGED lanzada
       \/ /\ lanzada' = "commit"
          /\ pc_carga' = "except"
          /\ UNCHANGED <<tabla, pendientes, i_lote>>
    /\ llamadas_db' = Append(llamadas_db, "commit")
    /\ UNCHANGED <<cargador, conexion, cursor, propagada>>
    /\ UNCHANGED mainVars
    /\ UNCHANGED <<valVars, colaVars, horaVars, genVars, proyVars, otrosVars>>

\* execute_batch on a connection in autocommit mode: every row is committed
\* as it is sent.
EjecutarBatchAutocommit ==
    /\ pc_carga = "execute"
    /\ \/ /\ tabla' = [tabla EXCEPT ![cargador] = @ + FilasDelLote]
          /\ pc_carga' = "commit"
          /\ UNCHANGED lanzada
       \/ /\ \E enviadas \in {0, FilasDelLote - 1} :
                tabla' = [tabla EXCEPT ![cargador] = @ + enviadas]
          /\ lanzada' = "execute_batch"
          /\ pc_carga' = "except"
    /\ llamadas_db' = Append(llamadas_db, "execute_batch")
    /\ UNCHANGED <<cargador, i_lote, conexion, cursor, pendientes, propagada>>
    /\ UNCHANGED mainVars
    /\ UNCHANGED <<valVars, colaVars, horaVars, genVars, proyVars, otrosVars>>

\* execute_batch(cursor, query, ..., page_size=1000) inside the try block:
\* the rows become pending on conn, or the call raises with the rows of the
\* pages already sent still pending.
EjecutarBatch ==
    /\ pc_carga = "execute"
    /\ \/ /\ pendientes' = pendientes + FilasDelLote
          /\ pc_carga' = "commit"
          /\ UNCHANGED lanzada
       \/ /\ \E enviadas \in {0, FilasDelLote - 1} :
                pendientes' = pendientes + enviadas
          /\ lanzada' = "execute_batch"
          /\ pc_carga' = "except"
    /\ llamadas_db' = Append(llamadas_db, "execute_batch")
    /\ UNCHANGED <<cargador, i_lote, conexion, cursor, tabla, propagada>>
    /\ UNCHANGED mainVars
    /\ UNCHANGED <<valVars, colaVars, horaVars, genVars, proyVars, otrosVars>>

\* conn.commit(): the pending rows are committed and, in
\* cargar_transacciones_db, the loop goes to its next slice; or it raises.
Commit ==
    /\ pc_carga = "commit"
    /\ \/ /\ tabla' = [tabla EXCEPT ![cargador] = @ + pendientes]
          /\ pendientes' = 0
          /\ i_lote' = IF cargador = "transacciones"
                       THEN i_lote + batch_size ELSE i_lote
          /\ pc_carga' = IF cargador = "transacciones"
                            /\ QuedaLote(i_lote + batch_size)
                         THEN "execute" ELSE "finally"
          /\ UNCHANGED lanzada
       \/ /\ lanzada' = "commit"
          /\ pc_carga' = "except"
          /\ UNCHANGED <<tabla, pendientes, i_lote>>
    /\ llamadas_db' = Append(llamadas_db, "commit")
    /\ UNCHANGED <<cargador, conexion, cursor, propagada>>
    /\ UNCHANGED mainVars
    /\ UNCHANGED <<valVars, colaVars, horaVars, genVars, proyVars, otrosVars>>

\* except Exception as e: conn.rollback(); print(...); raise
\* The bare raise re-raises e once the finally block has run.
ManejarExcepcionSinRollback ==
    /\ pc_carga = "except"
    /\ pc_carga' = "finally"
    /\ UNCHANGED <<cargador, i_lote, conexion, cursor, tabla, lanzada,
                   propagada, pendientes, llamadas_db>>
    /\ UNCHANGED mainVars
    /\ UNCHANGED <<valVars, colaVars, horaVars, genVars, proyVars, otrosVars>>

ManejarExcepcion ==
    /\ pc_carga = "except"
    /\ pendientes' = 0
    /\ llamadas_db' = Append(llamadas_db, "rollback")
    /\ pc_carga' = "finally"
    /\ UNCHANGED <<cargador, i_lote, conexion, cursor, tabla, lanzada,
                   propagada>>
    /\ UNCHANGED mainVars
    /\ UNCHANGED <<valVars, colaVars, horaVars, genVars, proyVars, otrosVars>>

\* finally: cursor.close(); conn.close(), then the function returns or the
\* exception in flight leaves it.
Finalmente ==
    /\ pc_carga = "finally"
    /\ cursor' = "cerrado"
    /\ conexion' = "cerrada"
    /\ llamadas_db' = llamadas_db \o <<"cursor.close", "conn.close">>
    /\ propagada' = lanzada
    /\ pc_carga' = IF lanzada = Nulo THEN "retornada" ELSE "propagada"
    /\ UNCHANGED <<cargador, i_lote, pendientes, tabla, lanzada>>
    /\ UNCHANGED mainVars
    /\ UNCHANGED <<valVars, colaVars, horaVars, genVars, proyVars, otrosVars>>

MarcarUltimo(estado) ==
    [pasos EXCEPT ![Len(pasos)] = [@ EXCEPT !.estado = estado]]

\* The loader returned: main goes on with its next statement.
RetornoCargador ==
    /\ pc_main = "cargando"
    /\ pc_carga = "retornada"
    /\ pasos' = MarcarUltimo("ok")
    /\ pc_main' = "ejecutando"
    /\ pc_carga' = "inactivo"
    /\ UNCHANGED <<retorno_main, n_filas>>
    /\ UNCHANGED <<cargador, i_lote, conexion, cursor, pendientes, tabla,
                   lanzada, propagada, llamadas_db>>
    /\ UNCHANGED <<valVars, colaVars, horaVars, genVars, proyVars, otrosVars>>

\* except Exception as e of main: print, traceback, return False.
ExcepcionEnMain ==
    /\ pc_main = "cargando"
    /\ pc_carga = "propagada"
    /\ pasos' = MarcarUltimo("error")
    /\ pc_main' = "fin"
    /\ retorno_main' = "False"
    /\ pc_carga' = "inactivo"
    /\ UNCHANGED n_filas
    /\ UNCHANGED <<cargador, i_lote, conexion, cursor, pendientes, tabla,
                   lanzada, propagada, llamadas_db>>
    /\ UNCHANGED <<valVars, colaVars, horaVars, genVars, proyVars, otrosVars>>

\* The summary is printed and main returns True.
RetornarTrue ==
    /\ pc_main = "ejecutando"
    /\ Len(pasos) = Len(OrdenMain)
    /\ pc_main' = "fin"
    /\ retorno_main' = "True"
    /\ UNCHANGED <<pasos, n_filas>>
    /\ UNCHANGED cargaVars
    /\ UNCHANGED <<valVars, colaVars, horaVars, genVars, proyVars, otrosVars>>

-----------------------------------------------------------------------------
(* The before/after projections of scripts 06, 07 and 08.  The code computes
   them in floating point; here they are exact fractions <<numerator,
   denominator>> in lowest terms, and <<0, 0>> stands for NaN (the mean of no
   row). *)

Abs(n) == IF n < 0 THEN -n ELSE n

RECURSIVE GCD(_, _)
GCD(a, b) == IF b = 0 THEN a ELSE GCD(b, a % b)

NaN == <<0, 0>>

Rat(n, d) ==
    IF d = 0 THEN NaN
    ELSE LET g == GCD(Abs(n), Abs(d))
             sg == IF d < 0 THEN -1 ELSE 1
         IN <<(sg * n) \div g, (sg * d) \div g>>

Entero(n) == <<n, 1>>
RatMul(a, b) == Rat(a[1] * b[1], a[2] * b[2])
RatAdd(a, b) == Rat(a[1] * b[2] + b[1] * a[2], a[2] * b[2])
RatSub(a, b) == Rat(a[1] * b[2] - b[1] * a[2], a[2] * b[2])
RatDiv(a, b) == Rat(a[1] * b[2], a[2] * b[1])

\* Rows of transacciones joined with usuarios, as the generator makes them.
FilasCargadas ==
    {[user_id |-> 1, nivel_verificacion |-> "completo", monto_usd |-> 750000,
      comision_usd |-> 3750, score_fraude |-> 1000,
      metodo_pago |-> "transferencia", tiempo_procesamiento |-> 100,
      estado |-> "exitosa", requiere_validacion_manual |-> TRUE, hora |-> 19],
     [user_id |-> 1, nivel_verificacion |-> "completo", monto_usd |-> 1500000,
      comision_usd |-> 7500, score_fraude |-> 5000,
      metodo_pago |-> "tarjeta", tiempo_procesamiento |-> 200,
      estado |-> "fallida", requiere_validacion_manual |-> TRUE, hora |-> 10],
     [user_id |-> 2, nivel_verificacion |-> "basico", monto_usd |-> 5000,
      comision_usd |-> 25, score_fraude |-> 2000,
      metodo_pago |-> "wallet_crypto", tiempo_procesamiento |-> 30,
      estado |-> "exitosa", requiere_validacion_manual |-> FALSE, hora |-> 23],
     [user_id |-> 3, nivel_verificacion |-> "intermedio",
      monto_usd |-> 500000, comision_usd |-> 2500, score_fraude |-> 9000,
      metodo_pago |-> "tarjeta", tiempo_procesamiento |-> 20,
      estado |-> "fallida", requiere_validacion_manual |-> FALSE, hora |-> 3]}

\* The most rows the scripts load.
MaxFilas == 2

RECURSIVE SumaDe(_, _)
SumaDe(df, columna) ==
    IF df = <<>> THEN 0 ELSE Head(df)[columna] + SumaDe(Tail(df), columna)

\* Series.mean(): NaN for no row.
Media(df, columna) == Rat(SumaDe(df, columna), Len(df))

EsExitosa(fila) == fila.estado = "exitosa"
EsFallida(fila) == fila.estado = "fallida"
EstadoFinal(fila) == fila.estado \in {"exitosa", "fallida"}
RequiereManual(fila) == fila.requiere_validacion_manual = TRUE
EnHoraPico(fila) == EnHoraPico06(fila.hora)

\* self.stats after procesar_lote(lote) ran on stats s.
RECURSIVE procesar_lote_stats(_, _)
procesar_lote_stats(s, lote) ==
    IF lote = <<>> THEN s
    ELSE procesar_lote_stats(validar_stats(s, Head(lote)), Tail(lote))

\* reduccion_porcentaje of simular_optimizaciones, from the stats of its
\* validator.
ReduccionFija(s) == Rat(22, 100)
ReduccionPorcentaje(s) ==
    IF s.procesadas > 0
    THEN LET tasa_auto ==
                 RatMul(Rat(s.aprobadas_automaticamente, s.procesadas),
                        Entero(100))
         IN RatAdd(Rat(15, 100),
                   RatMul(RatDiv(tasa_auto, Entero(100)), Rat(20, 100)))
    ELSE Rat(22, 100)

\* 07 and 08: the hard-coded improvements.
reduccion_tiempo_07 == Rat(227, 1000)
reduccion_error_07 == Rat(467, 1000)
mejora_tiempo_08 == Rat(227, 1000)
mejora_error_08 == Rat(467, 1000)
aumento_capacidad_08 == Rat(112, 100)
aumento_volumen_08 == Rat(110, 100)

Uno == Entero(1)

\* (df['estado'] == 'fallida').sum() / len(df) * 100
TasaError(df) ==
    RatMul(Rat(Len(SelectSeq(df, EsFallida)), Len(df)), Entero(100))

SinComparativa ==
    [tiempo_promedio_actual |-> NaN, tiempo_total_actual |-> NaN,
     reduccion_porcentaje |-> NaN,
     tiempo_promedio_optimizado |-> NaN, tiempo_total_optimizado |-> NaN]

SinProyeccion ==
    [tiempo_promedio_actual |-> NaN, tasa_error_actual |-> NaN,
     tiempo_promedio_optimizado |-> NaN, tasa_error_optimizada |-> NaN]

Kpis == {"total_transacciones", "usuarios_activos", "volumen_usd",
         "ticket_promedio", "tiempo_promedio", "tasa_error", "comisiones"}

SinKpis == [before |-> [k \in Kpis |-> NaN], after |-> [k \in Kpis |-> NaN]]

InitProy ==
    /\ df_cargado = <<>>
    /\ comparativa_06 = SinComparativa
    /\ proyeccion_07 = SinProyeccion
    /\ kpis_08 = SinKpis

\* The rows the database holds when the scripts run.
CargarDatos ==
    /\ df_cargado = <<>>
    /\ \E n \in 1..MaxFilas : \E df \in [1..n -> FilasCargadas] :
          df_cargado' = df
    /\ UNCHANGED <<comparativa_06, proyeccion_07, kpis_08>>
    /\ UNCHANGED <<valVars, colaVars, horaVars, genVars,
                   mainVars, cargaVars, otrosVars>>

\* simular_optimizaciones: a new validator processes the rows that require
\* manual validation, a new optimizer queues the rows of the peak hours, and
\* the comparison is computed.
SimularOptimizaciones06 ==
    /\ df_cargado # <<>>
    /\ LET df == SelectSeq(df_cargado, EstadoFinal)
           txn_con_validacion == SelectSeq(df, RequiereManual)
           txn_hora_pico == SelectSeq(df, EnHoraPico)
           s == procesar_lote_stats(stats0, txn_con_validacion)
           c == Encolar([p \in Prioridades |-> <<>>], txn_hora_pico)
           tiempo_promedio_actual == Media(df, "tiempo_procesamiento")
           tiempo_total_actual == Entero(SumaDe(df, "tiempo_procesamiento"))
           reduccion_porcentaje == ReduccionPorcentaje(s)
       IN
       /\ stats' = s
       /\ IF txn_con_validacion # <<>>
          THEN LET ultima ==
                       txn_con_validacion[Len(txn_con_validacion)]
               IN /\ txn' = ultima
                  /\ resultado' = validar_retorno(ultima)
          ELSE /\ txn' = SinTxn
               /\ resultado' = SinResultado
       /\ colas' = c
       /\ lote_cola' = txn_hora_pico
       /\ retorno_colas' =
             IF txn_hora_pico # <<>>
             THEN [tiempo_total |-> tiempo_total_estimado(c),
                   distribucion |-> Distribucion(c)]
             ELSE SinRetornoColas
       /\ comparativa_06' =
             [tiempo_promedio_actual |-> tiempo_promedio_actual,
              tiempo_total_actual |-> tiempo_total_actual,
              reduccion_porcentaje |-> reduccion_porcentaje,
              tiempo_promedio_optimizado |->
                  RatMul(tiempo_promedio_actual,
                         RatSub(Uno, reduccion_porcentaje)),
              tiempo_total_optimizado |->
                  RatMul(tiempo_total_actual,
                         RatSub(Uno, reduccion_porcentaje))]
    /\ UNCHANGED <<txn_cola, prioridad>>
    /\ UNCHANGED <<df_cargado, proyeccion_07, kpis_08>>
    /\ UNCHANGED <<horaVars, genVars, mainVars, cargaVars, otrosVars>>

\* crear_visualizacion_before_after
VisualizacionBeforeAfter07 ==
    /\ df_cargado # <<>>
    /\ LET df == df_cargado
           tiempo_promedio_actual ==
               Media(SelectSeq(df, EstadoFinal), "tiempo_procesamiento")
           tasa_error_actual == TasaError(df)
       IN proyeccion_07' =
             [tiempo_promedio_actual |-> tiempo_promedio_actual,
              tasa_error_actual |-> tasa_error_actual,
              tiempo_promedio_optimizado |->
                  RatMul(tiempo_promedio_actual,
                         RatSub(Uno, reduccion_tiempo_07)),
              tasa_error_optimizada |->
                  RatMul(tasa_error_actual,
                         RatSub(Uno, reduccion_error_07))]
    /\ UNCHANGED <<df_cargado, comparativa_06, kpis_08>>
    /\ UNCHANGED <<valVars, colaVars, horaVars, genVars,
                   mainVars, cargaVars, otrosVars>>

\* calcular_kpis
kpis_before(df_txn) ==
    LET exitosas == SelectSeq(df_txn, EsExitosa) IN
    [total_transacciones |-> Entero(Len(df_txn)),
     usuarios_activos |->
         Entero(Cardinality({df_txn[k].user_id : k \in 1..Len(df_txn)})),
     volumen_usd |-> Entero(SumaDe(exitosas, "monto_usd")),
     ticket_promedio |-> Media(exitosas, "monto_usd"),
     tiempo_promedio |->
         Media(SelectSeq(df_txn, EstadoFinal), "tiempo_procesamiento"),
     tasa_error |-> TasaError(df_txn),
     comisiones |-> Entero(SumaDe(exitosas, "comision_usd"))]

kpis_after(antes) ==
    [total_transacciones |->
         RatMul(antes.total_transacciones, aumento_capacidad_08),
     usuarios_activos |-> antes.usuarios_activos,
     volumen_usd |-> RatMul(antes.volumen_usd, aumento_volumen_08),
     ticket_promedio |-> antes.ticket_promedio,
     tiempo_promedio |->
         RatMul(antes.tiempo_promedio, RatSub(Uno, mejora_tiempo_08)),
     tasa_error |-> RatMul(antes.tasa_error, RatSub(Uno, mejora_error_08)),
     comisiones |-> RatMul(antes.comisiones, aumento_volumen_08)]

CalcularKpis08 ==
    /\ df_cargado # <<>>
    /\ kpis_08' = [before |-> kpis_before(df_cargado),
                   after |-> kpis_after(kpis_before(df_cargado))]
    /\ UNCHANGED <<df_cargado, comparativa_06, proyeccion_07>>
    /\ UNCHANGED <<valVars, colaVars, horaVars, genVars,
                   mainVars, cargaVars, otrosVars>>

-----------------------------------------------------------------------------
(* Script 02: generar_metricas_operativas, and the columns that
   cargar_metricas_db reads from its rows. *)

tipos_operacion == {"compra", "venta", "swap", "retiro"}

\* The rows passed in one call.
MaxFilasMetricas == 2

\* timestamp_inicio of the rows: two instants of one hour, the next hour and
\* the same hour of the next day
InstantesMuestra ==
    {[dia |-> 0, hora |-> 18, minuto |-> 0, segundo |-> 0],
     [dia |-> 0, hora |-> 18, minuto |-> 59, segundo |-> 59],
     [dia |-> 0, hora |-> 19, minuto |-> 0, segundo |-> 0],
     [dia |-> 1, hora |-> 18, minuto |-> 0, segundo |-> 0]}

FilasMetricasMuestra ==
    [timestamp_inicio : InstantesMuestra, estado : {"exitosa", "fallida"},
     tipo_operacion : tipos_operacion]

\* df_transacciones['fecha'] = ...dt.date; df_transacciones['hora'] = ...dt.hour
ConFechaHora(df) ==
    [k \in 1..Len(df) |->
        [transaction_id |-> df[k].transaction_id,
         timestamp_inicio |-> df[k].timestamp_inicio,
         estado |-> df[k].estado,
         tipo_operacion |-> df[k].tipo_operacion,
         fecha |-> df[k].timestamp_inicio.dia,
         hora |-> df[k].timestamp_inicio.hora]]

\* The groups of groupby(['fecha', 'hora']) and their rows.
Claves(df) == {<<df[k].fecha, df[k].hora>> : k \in 1..Len(df)}
Grupo(df, clave) ==
    {k \in 1..Len(df) : <<df[k].fecha, df[k].hora>> = clave}

\* groupby sorts the group keys.
ClaveMenorIgual(c, d) == c[1] < d[1] \/ (c[1] = d[1] /\ c[2] <= d[2])

RECURSIVE OrdenarClaves(_)
OrdenarClaves(S) ==
    IF S = {} THEN <<>>
    ELSE LET m == CHOOSE c \in S : \A d \in S : ClaveMenorIgual(c, d)
         IN <<m>> \o OrdenarClaves(S \ {m})

\* df[df['estado'] == e].groupby(['fecha', 'hora']).size() of one group,
\* 0 after the left merge and fillna(0) when the group has no such row
size_sin_filtro(df, clave, e) == Cardinality(Grupo(df, clave))
size_por_estado(df, clave, e) ==
    Cardinality({k \in Grupo(df, clave) : df[k].estado = e})

\* groupby(['fecha', 'hora', 'tipo_operacion']).size().unstack(fill_value=0):
\* one column per tipo_operacion that occurs in the dataframe
size_por_tipo(df, clave, t) ==
    Cardinality({k \in Grupo(df, clave) : df[k].tipo_operacion = t})

ColumnaDeTipo(t) ==
    CASE t = "compra" -> "num_compra"
      [] t = "venta" -> "num_venta"
      [] t = "swap" -> "num_swap"
      [] OTHER -> "num_retiro"

TiposPresentes(df) == {df[k].tipo_operacion : k \in 1..Len(df)}

\* 'transaction_id': 'count' counts the rows of the group: transaction_id is
\* never null.
FilaDeMetricas(df, clave) ==
    [fecha |-> clave[1],
     hora |-> clave[2],
     num_transacciones |-> Cardinality(Grupo(df, clave)),
     num_transacciones_exitosas |-> size_por_estado(df, clave, "exitosa"),
     num_transacciones_fallidas |-> size_por_estado(df, clave, "fallida")]
    @@ [c \in {ColumnaDeTipo(t) : t \in TiposPresentes(df)} |->
           LET t == CHOOSE x \in TiposPresentes(df) : ColumnaDeTipo(x) = c
           IN size_por_tipo(df, clave, t)]

Metricas(df) ==
    LET claves == OrdenarClaves(Claves(df)) IN
    [k \in 1..Len(claves) |-> FilaDeMetricas(df, claves[k])]

\* row.get(columna, 0) of cargar_metricas_db
row_get(row, columna, defecto) ==
    IF columna \in DOMAIN row THEN row[columna] ELSE defecto

InitMetricas ==
    /\ df_transacciones = <<>>
    /\ df_metricas = <<>>

\* The dataframe that main passes: transaction_id is the position of the row.
RecibirTransacciones ==
    /\ df_transacciones = <<>>
    /\ \E n \in 1..MaxFilasMetricas :
       \E filas \in [1..n -> FilasMetricasMuestra] :
          df_transacciones' =
              [k \in 1..n |->
                  [transaction_id |-> k,
                   timestamp_inicio |-> filas[k].timestamp_inicio,
                   estado |-> filas[k].estado,
                   tipo_operacion |-> filas[k].tipo_operacion]]
    /\ UNCHANGED df_metricas
    /\ UNCHANGED <<valVars, colaVars, horaVars, genVars, mainVars,
                   cargaVars, proyVars, esqVars, eleVars, loteVars,
                   anaVars>>

\* generar_metricas_operativas(df_transacciones): adds the columns fecha and
\* hora to its parameter and returns the aggregated rows.
GenerarMetricasOperativas ==
    /\ df_transacciones # <<>>
    /\ df_transacciones' = ConFechaHora(df_transacciones)
    /\ df_metricas' = Metricas(ConFechaHora(df_transacciones))
    /\ UNCHANGED <<valVars, colaVars, horaVars, genVars, mainVars,
                   cargaVars, proyVars, esqVars, eleVars, loteVars,
                   anaVars>>

-----------------------------------------------------------------------------
(* verificar_schemas.py: main *)

EXPECTED_TABLES ==
    {"usuarios", "transacciones", "metricas_operativas", "validaciones",
     "logs_sistema", "configuracion_sistema"}

EXPECTED_VIEWS ==
    {"vista_metricas_tiempo_real", "vista_top_criptos",
     "vista_resumen_usuarios"}

EXPECTED_TRIGGERS ==
    {"trigger_actualizar_tiempo_procesamiento",
     "trigger_actualizar_estadisticas_usuario"}

EXPECTED_INDEXES ==
    [usuarios |->
         {"idx_usuarios_pais", "idx_usuarios_nivel_verificacion",
          "idx_usuarios_estado_cuenta", "idx_usuarios_fecha_registro"},
     transacciones |->
         {"idx_transacciones_user_id", "idx_transacciones_timestamp_inicio",
          "idx_transacciones_estado", "idx_transacciones_tipo_operacion",
          "idx_transacciones_cripto", "idx_transacciones_metodo_pago"}]

EXPECTED_FKS ==
    {<<"transacciones", "user_id", "usuarios">>,
     <<"validaciones", "transaction_id", "transacciones">>,
     <<"logs_sistema", "transaction_id", "transacciones">>,
     <<"logs_sistema", "user_id", "usuarios">>}

\* What the catalog queries can answer: everything expected, everything and
\* one object more, one expected object missing, nothing.
RespuestasMuestra(esperado, extra, falta) ==
    {esperado, esperado \cup {extra}, esperado \ {falta}, {}}

SinIndices == [t \in {} |-> {}]

IndexMapsMuestra ==
    {EXPECTED_INDEXES,
     [t \in {"usuarios", "transacciones", "validaciones"} |->
         IF t = "validaciones" THEN {"validaciones_pkey"}
         ELSE EXPECTED_INDEXES[t] \cup {t}],
     [t \in {"usuarios", "transacciones"} |->
         IF t = "usuarios" THEN EXPECTED_INDEXES[t]
         ELSE EXPECTED_INDEXES[t] \ {"idx_transacciones_estado"}],
     [t \in {"transacciones"} |-> EXPECTED_INDEXES[t]],
     SinIndices}

\* index_map.get(table, set())
index_map_get(index_map, table) ==
    IF table \in DOMAIN index_map THEN index_map[table] ELSE {}

\* The loop over EXPECTED_INDEXES.items()
IndexesOk(index_map) ==
    \A table \in DOMAIN EXPECTED_INDEXES :
        EXPECTED_INDEXES[table] \subseteq index_map_get(index_map, table)

\* The outcomes of the insertion test: both inserts succeed, or the first or
\* the second raises.
ResultadosInsercion == {"ok", "falla_usuarios", "falla_transacciones"}

SentenciasDeConCommit(salida) ==
    CASE salida = "ok" ->
           <<"BEGIN", "INSERT usuarios", "INSERT transacciones", "COMMIT">>
      [] salida = "falla_usuarios" ->
           <<"BEGIN", "INSERT usuarios", "COMMIT">>
      [] OTHER ->
           <<"BEGIN", "INSERT usuarios", "INSERT transacciones", "COMMIT">>

SentenciasDe(salida) ==
    CASE salida = "ok" ->
           <<"BEGIN", "INSERT usuarios", "INSERT transacciones", "ROLLBACK">>
      [] salida = "falla_usuarios" ->
           <<"BEGIN", "INSERT usuarios", "ROLLBACK">>
      [] OTHER ->
           <<"BEGIN", "INSERT usuarios", "INSERT transacciones", "ROLLBACK">>

\* The rows the two tables hold when the script connects, sampled.  A row
\* of transacciones refers to a row of usuarios.
TablasMuestra ==
    {[usuarios |-> {}, transacciones |-> {}],
     [usuarios |-> {[user_id |-> 1, username |-> "ana"]},
      transacciones |-> {}],
     [usuarios |-> {[user_id |-> 1, username |-> "ana"]},
      transacciones |-> {[transaction_id |-> 1, user_id |-> 1]}]}

SinFilas == [usuarios |-> {}, transacciones |-> {}]

\* The database as conn sees it: the committed rows, the rows inserted by
\* the open transaction, and whether a statement of it has failed.
BaseDe(tablas) ==
    [usuarios |-> tablas.usuarios, transacciones |-> tablas.transacciones,
     sin_confirmar |-> SinFilas, abortada |-> FALSE]

\* The statement of the insertion test that raises.
Falla(salida, sentencia) ==
    \/ salida = "falla_usuarios" /\ sentencia = "INSERT usuarios"
    \/ salida = "falla_transacciones" /\ sentencia = "INSERT transacciones"

\* The row of test_user, with the user_id that RETURNING gives back, and the
\* test transaction of that user_id.
FilaTestUser(bd) ==
    [user_id |-> Cardinality(bd.usuarios) + 1, username |-> "test_user"]
FilaTestTransaccion(bd) ==
    [transaction_id |-> Cardinality(bd.transacciones) + 1,
     user_id |-> FilaTestUser(bd).user_id]

\* One cur.execute on the connection, which is not in autocommit mode: the
\* catalog queries have opened a transaction, so BEGIN starts none; a
\* statement that fails aborts the transaction; ROLLBACK, and COMMIT of an
\* aborted transaction, discard its rows.
Ejecutar(bd, sentencia, falla) ==
    CASE falla -> [bd EXCEPT !.abortada = TRUE]
      [] sentencia = "INSERT usuarios" ->
           [bd EXCEPT !.sin_confirmar.usuarios = @ \cup {FilaTestUser(bd)}]
      [] sentencia = "INSERT transacciones" ->
           [bd EXCEPT !.sin_confirmar.transacciones =
                          @ \cup {FilaTestTransaccion(bd)}]
      [] sentencia = "ROLLBACK" \/ (sentencia = "COMMIT" /\ bd.abortada) ->
           [bd EXCEPT !.sin_confirmar = SinFilas, !.abortada = FALSE]
      [] sentencia = "COMMIT" ->
           [bd EXCEPT !.usuarios = @ \cup bd.sin_confirmar.usuarios,
                      !.transacciones = @ \cup bd.sin_confirmar.transacciones,
                      !.sin_confirmar = SinFilas]
      [] OTHER -> bd

RECURSIVE EjecutarTodas(_, _, _)
EjecutarTodas(bd, ss, salida) ==
    IF ss = <<>> THEN bd
    ELSE EjecutarTodas(Ejecutar(bd, Head(ss), Falla(salida, Head(ss))),
                       Tail(ss), salida)

\* conn.close() with no commit: the rows of the open transaction are lost.
Cerrar(bd) == [bd EXCEPT !.sin_confirmar = SinFilas, !.abortada = FALSE]

NombresDeChecks ==
    {"Tablas", "Vistas", "Triggers", "Indices", "Foreign Keys", "Inserciones"}

\* all(checks.values())
AlgunCheck(c) == \E k \in NombresDeChecks : c[k]
TodosLosChecks(c) == \A k \in NombresDeChecks : c[k]

InitEsquema ==
    /\ pc_esquema = "connect"
    /\ encontrado = [tables |-> {}, views |-> {}, triggers |-> {},
                     index_map |-> SinIndices, fks |-> {},
                     insercion |-> Nulo]
    /\ checks = [k \in NombresDeChecks |-> FALSE]
    /\ sentencias = <<>>
    /\ reporte = Nulo
    /\ db_antes = SinFilas
    /\ db = BaseDe(SinFilas)

EsqSinCambio ==
    UNCHANGED <<valVars, colaVars, horaVars, genVars, mainVars,
                cargaVars, proyVars, metVars, eleVars, loteVars, anaVars>>

\* conn = psycopg2.connect(**DB_CONFIG); cur = conn.cursor(...): the script
\* meets the tables as they are.
ConectarEsquema ==
    /\ pc_esquema = "connect"
    /\ \E tablas \in TablasMuestra :
          /\ db_antes' = tablas
          /\ db' = BaseDe(tablas)
    /\ pc_esquema' = "tablas"
    /\ UNCHANGED <<encontrado, checks, sentencias, reporte>>
    /\ EsqSinCambio

VerificarTablas ==
    /\ pc_esquema = "tablas"
    /\ \E tables \in RespuestasMuestra(EXPECTED_TABLES, "spatial_ref_sys",
                                       "validaciones") :
          /\ encontrado' = [encontrado EXCEPT !.tables = tables]
          /\ checks' = [checks EXCEPT
                           !["Tablas"] = EXPECTED_TABLES \subseteq tables]
    /\ pc_esquema' = "vistas"
    /\ UNCHANGED <<sentencias, reporte, db_antes, db>>
    /\ EsqSinCambio

VerificarVistas ==
    /\ pc_esquema = "vistas"
    /\ \E views \in RespuestasMuestra(EXPECTED_VIEWS, "vista_extra",
                                      "vista_top_criptos") :
          /\ encontrado' = [encontrado EXCEPT !.views = views]
          /\ checks' = [checks EXCEPT
                           !["Vistas"] = EXPECTED_VIEWS \subseteq views]
    /\ pc_esquema' = "triggers"
    /\ UNCHANGED <<sentencias, reporte, db_antes, db>>
    /\ EsqSinCambio

VerificarTriggers ==
    /\ pc_esquema = "triggers"
    /\ \E triggers \in
           RespuestasMuestra(EXPECTED_TRIGGERS, "trigger_extra",
                             "trigger_actualizar_estadisticas_usuario") :
          /\ encontrado' = [encontrado EXCEPT !.triggers = triggers]
          /\ checks' = [checks EXCEPT
                           !["Triggers"] = EXPECTED_TRIGGERS \subseteq triggers]
    /\ pc_esquema' = "indices"
    /\ UNCHANGED <<sentencias, reporte, db_antes, db>>
    /\ EsqSinCambio

VerificarIndices ==
    /\ pc_esquema = "indices"
    /\ \E index_map \in IndexMapsMuestra :
          /\ encontrado' = [encontrado EXCEPT !.index_map = index_map]
          /\ checks' = [checks EXCEPT !["Indices"] = IndexesOk(index_map)]
    /\ pc_esquema' = "fks"
    /\ UNCHANGED <<sentencias, reporte, db_antes, db>>
    /\ EsqSinCambio

VerificarFks ==
    /\ pc_esquema = "fks"
    /\ \E fks \in RespuestasMuestra(EXPECTED_FKS,
                                    <<"validaciones", "user_id", "usuarios">>,
                                    <<"logs_sistema", "user_id", "usuarios">>) :
          /\ encontrado' = [encontrado EXCEPT !.fks = fks]
          /\ checks' = [checks EXCEPT
                           !["Foreign Keys"] = EXPECTED_FKS \subseteq fks]
    /\ pc_esquema' = "insercion"
    /\ UNCHANGED <<sentencias, reporte, db_antes, db>>
    /\ EsqSinCambio

\* The try block of the insertion test and its except clause.
TestInsercion ==
    /\ pc_esquema = "insercion"
    /\ \E r \in ResultadosInsercion :
          /\ sentencias' = SentenciasDe(r)
          /\ db' = EjecutarTodas(db, SentenciasDe(r), r)
          /\ encontrado' = [encontrado EXCEPT !.insercion = r]
          /\ checks' = [checks EXCEPT !["Inserciones"] = (r = "ok")]
    /\ pc_esquema' = "reporte"
    /\ UNCHANGED <<reporte, db_antes>>
    /\ EsqSinCambio

\* The final report, cur.close() and conn.close().
ReporteFinal ==
    /\ pc_esquema = "reporte"
    /\ reporte' = IF TodosLosChecks(checks)
                  THEN "SCHEMA VALIDO" ELSE "SCHEMA INCOMPLETO"
    /\ pc_esquema' = "fin"
    /\ db' = Cerrar(db)
    /\ UNCHANGED <<encontrado, checks, sentencias, db_antes>>
    /\ EsqSinCambio

-----------------------------------------------------------------------------
(* Script 02, generar_transacciones: the choice of the user of a row.
   random.choice(seq) returns seq[i] for a position i drawn uniformly, so the
   chance of a user_id is the number of positions that hold it. *)

\* The rows of df_usuarios in one call.
MaxCandidatos == 2

FilasUsuarioMuestra ==
    [nivel_verificacion : Niveles, estado_cuenta : EstadosCuenta]

\* df_usuarios[df_usuarios['estado_cuenta'] == 'activa']['user_id'].tolist()
RECURSIVE lista_usuarios_activos(_)
lista_usuarios_activos(us) ==
    IF us = <<>> THEN <<>>
    ELSE (IF Head(us).estado_cuenta = "activa"
          THEN <<Head(us).user_id>> ELSE <<>>)
         \o lista_usuarios_activos(Tail(us))

\* The number of positions of a list that hold a value.
Veces(lista, valor) ==
    Cardinality({i \in 1..Len(lista) : lista[i] = valor})

InitEleccion ==
    /\ df_usuarios = <<>>
    /\ candidatos = <<>>
    /\ user_id = 0

\* The dataframe of generar_usuarios: user_id is the position of the row.
RecibirUsuarios ==
    /\ df_usuarios = <<>>
    /\ \E n \in 1..MaxCandidatos :
       \E filas \in [1..n -> FilasUsuarioMuestra] :
          df_usuarios' =
              [k \in 1..n |->
                  [user_id |-> k,
                   nivel_verificacion |-> filas[k].nivel_verificacion,
                   estado_cuenta |-> filas[k].estado_cuenta]]
    /\ UNCHANGED <<candidatos, user_id>>
    /\ UNCHANGED <<valVars, colaVars, horaVars, genVars, mainVars,
                   cargaVars, proyVars, metVars, esqVars, loteVars,
                   anaVars>>

\* user_id = random.choice(usuarios_activos); it raises on an empty list.
ElegirUsuario ==
    /\ df_usuarios # <<>>
    /\ LET usuarios_activos_lista == lista_usuarios_activos(df_usuarios) IN
       /\ usuarios_activos_lista # <<>>
       /\ candidatos' = usuarios_activos_lista
       /\ \E i \in 1..Len(usuarios_activos_lista) :
             user_id' = usuarios_activos_lista[i]
    /\ UNCHANGED df_usuarios
    /\ UNCHANGED <<valVars, colaVars, horaVars, genVars, mainVars,
                   cargaVars, proyVars, metVars, esqVars, loteVars,
                   anaVars>>

-----------------------------------------------------------------------------
(* Script 06: ValidadorAutomatico.procesar_lote *)

\* The rows of one call.
MaxFilasLote == 2

\* Rows of the loaded dataframe: one that every rule accepts, one of a
\* 'basico' user, one paid by card; transaction_id as the database gave it.
FilasLoteMuestra ==
    {[transaction_id |-> i, nivel_verificacion |-> f[1], monto_usd |-> f[2],
      score_fraude |-> f[3], metodo_pago |-> f[4]] :
        i \in {17, 4},
        f \in {<<"intermedio", 10000 * Centesimos, 30 * Centesimos,
                 "transferencia">>,
               <<"basico", 9999, 0, "wallet_crypto">>,
               <<"completo", 5000 * Centesimos, 0, "tarjeta">>}}

\* The rows appended to resultados, one per row of iterrows().
resultados_invertidos(filas) ==
    [k \in 1..Len(filas) |->
        LET fila == filas[Len(filas) + 1 - k]
            r == validar_retorno(fila)
        IN [transaction_id |-> fila.transaction_id,
            resultado |-> r.resultado,
            motivo |-> r.motivo,
            tiempo |-> r.tiempo]]
resultados_de_lote(filas) ==
    [k \in 1..Len(filas) |->
        LET r == validar_retorno(filas[k])
        IN [transaction_id |-> filas[k].transaction_id,
            resultado |-> r.resultado,
            motivo |-> r.motivo,
            tiempo |-> r.tiempo]]

InitLote ==
    /\ lote_validador = <<>>
    /\ resultados = <<>>

\* One call of procesar_lote on the validator; the rows go through
\* validar_transaccion one by one.
ProcesarLote ==
    /\ \E filas \in Lotes(FilasLoteMuestra, MaxFilasLote) :
        /\ stats.procesadas + Len(filas) <= MaxProcesadas
        /\ lote_validador' = filas
        /\ resultados' = resultados_de_lote(filas)
        /\ stats' = procesar_lote_stats(stats, filas)
        /\ IF filas # <<>>
           THEN /\ txn' = filas[Len(filas)]
                /\ resultado' = validar_retorno(filas[Len(filas)])
           ELSE UNCHANGED <<txn, resultado>>
    /\ UNCHANGED <<colaVars, horaVars, genVars, mainVars, cargaVars,
                   proyVars, metVars, esqVars, eleVars, anaVars>>

-----------------------------------------------------------------------------
(* Script 03: ejecutar_query_y_exportar and main. *)

\* The nombre_query of the five calls of main, in order.
Queries ==
    <<"Overview General", "Analisis Por Hora", "Transacciones Lentas",
      "Performance Por Cripto", "Motivos De Fallo">>

\* f"data/processed/analisis_{nombre_query.lower().replace(' ', '_')}.csv"
filename(nombre_query) ==
    CASE nombre_query = "Overview General" ->
           "data/processed/analisis_overview_general.csv"
      [] nombre_query = "Analisis Por Hora" ->
           "data/processed/analisis_analisis_por_hora.csv"
      [] nombre_query = "Transacciones Lentas" ->
           "data/processed/analisis_transacciones_lentas.csv"
      [] nombre_query = "Performance Por Cripto" ->
           "data/processed/analisis_performance_por_cripto.csv"
      [] nombre_query = "Motivos De Fallo" ->
           "data/processed/analisis_motivos_de_fallo.csv"

\* What the database and the disk do in one call: whether the query raises
\* and, if it does, whether the transaction of conn is left aborted (pandas
\* may roll it back itself); the rows of the result; whether to_csv raises.
SalidasMuestra ==
    [query_falla : BOOLEAN, conn_despues : {"abierta", "abortada"},
     filas : {0, 3}, export_falla : BOOLEAN]

SinLlamada ==
    [nombre_query |-> Nulo, exportar_csv |-> FALSE, retorno |-> Nulo,
     filas |-> 0, csv |-> Nulo, atrapada |-> Nulo, propagada |-> Nulo,
     conn |-> "ninguna", llamadas |-> <<>>]

\* A function whose handler rolls back and re-raises, as the loaders of
\* script 02 do.
ejecutar_query_y_exportar_relanza(c, nombre_query, exportar_csv, salida) ==
    LET base == [SinLlamada EXCEPT !.nombre_query = nombre_query,
                                   !.exportar_csv = exportar_csv,
                                   !.conn = c]
    IN
    IF salida.query_falla \/ c # "abierta"
    THEN [base EXCEPT !.atrapada = "read_sql_query",
                      !.propagada = "read_sql_query",
                      !.llamadas = <<"read_sql_query", "rollback">>]
    ELSE IF exportar_csv /\ salida.filas > 0
    THEN IF salida.export_falla
         THEN [base EXCEPT !.atrapada = "to_csv",
                           !.propagada = "to_csv",
                           !.filas = salida.filas,
                           !.llamadas =
                               <<"read_sql_query", "to_csv", "rollback">>]
         ELSE [base EXCEPT !.retorno = "df",
                           !.filas = salida.filas,
                           !.csv = filename(nombre_query),
                           !.llamadas = <<"read_sql_query", "to_csv">>]
    ELSE [base EXCEPT !.retorno = "df",
                      !.filas = salida.filas,
                      !.llamadas = <<"read_sql_query">>]

\* ejecutar_query_y_exportar(conn, nombre_query, query_sql, exportar_csv):
\* the returned value (a dataframe of filas rows, or None), the file
\* written, the exception its handler caught, the exception that left it,
\* conn after the call and the calls made.  A query on a connection whose
\* transaction is aborted, or that is closed, raises.
ejecutar_query_y_exportar(c, nombre_query, exportar_csv, salida) ==
    LET base == [SinLlamada EXCEPT !.nombre_query = nombre_query,
                                   !.exportar_csv = exportar_csv,
                                   !.conn = c]
    IN
    IF salida.query_falla \/ c # "abierta"
    THEN [base EXCEPT !.atrapada = "read_sql_query",
                      !.conn = IF c = "abierta"
                               THEN salida.conn_despues ELSE c,
                      !.llamadas = <<"read_sql_query">>]
    ELSE IF exportar_csv /\ salida.filas > 0
    THEN IF salida.export_falla
         THEN [base EXCEPT !.atrapada = "to_csv",
                           !.filas = salida.filas,
                           !.llamadas = <<"read_sql_query", "to_csv">>]
         ELSE [base EXCEPT !.retorno = "df",
                           !.filas = salida.filas,
                           !.csv = filename(nombre_query),
                           !.llamadas = <<"read_sql_query", "to_csv">>]
    ELSE [base EXCEPT !.retorno = "df",
                      !.filas = salida.filas,
                      !.llamadas = <<"read_sql_query">>]

InitAnalisis ==
    /\ pc_analisis = "inicio"
    /\ conn = "ninguna"
    /\ intentadas = <<>>
    /\ llamada = SinLlamada
    /\ propagada_03 = Nulo
    /\ llamadas_03 = <<>>

AnaSinCambio ==
    UNCHANGED <<valVars, colaVars, horaVars, genVars, mainVars,
                cargaVars, proyVars, metVars, esqVars, eleVars, loteVars>>

\* One call of the function by a caller of its own, with either value of
\* exportar_csv, on a connection that is open or has an aborted
\* transaction.
LlamarEjecutarQuery ==
    /\ pc_analisis = "inicio"
    /\ \E c \in {"abierta", "abortada"}, k \in 1..Len(Queries),
          exportar_csv \in BOOLEAN, salida \in SalidasMuestra :
          llamada' = ejecutar_query_y_exportar(c, Queries[k], exportar_csv,
                                               salida)
    /\ UNCHANGED <<pc_analisis, conn, intentadas, propagada_03, llamadas_03>>
    /\ AnaSinCambio

\* conn = psycopg2.connect(**DB_CONFIG), before the try block of main.
ConectarAnalisis ==
    /\ pc_analisis = "inicio"
    /\ llamadas_03' = Append(llamadas_03, "connect")
    /\ \/ /\ conn' = "abierta"
          /\ pc_analisis' = "try"
          /\ UNCHANGED propagada_03
       \/ /\ propagada_03' = "connect"
          /\ pc_analisis' = "fin"
          /\ UNCHANGED conn
    /\ UNCHANGED <<intentadas, llamada>>
    /\ AnaSinCambio

\* The next call of main, with the default exportar_csv=True.  An exception
\* that leaves the function goes to the except clause of main.
ConsultaDeMain ==
    /\ pc_analisis = "try"
    /\ Len(intentadas) < Len(Queries)
    /\ \E salida \in SalidasMuestra :
          LET r == ejecutar_query_y_exportar(
                       conn, Queries[Len(intentadas) + 1], TRUE, salida)
          IN /\ llamada' = r
             /\ intentadas' = Append(intentadas, r)
             /\ conn' = r.conn
             /\ llamadas_03' = llamadas_03 \o r.llamadas
             /\ pc_analisis' = IF r.propagada # Nulo THEN "except" ELSE "try"
    /\ UNCHANGED propagada_03
    /\ AnaSinCambio

\* The end of the try block, or the except clause, and then finally:
\* conn.close().
FinalmenteAnalisis ==
    /\ \/ pc_analisis = "try" /\ Len(intentadas) = Len(Queries)
       \/ pc_analisis = "except"
    /\ conn' = "cerrada"
    /\ llamadas_03' = Append(llamadas_03, "close")
    /\ pc_analisis' = "fin"
    /\ UNCHANGED <<intentadas, llamada, propagada_03>>
    /\ AnaSinCambio

-----------------------------------------------------------------------------
Init ==
    /\ InitValidador
    /\ InitColas
    /\ InitHora
    /\ InitGen
    /\ InitMain
    /\ InitCarga
    /\ InitProy
    /\ InitMetricas
    /\ InitEsquema
    /\ InitEleccion
    /\ InitLote
    /\ InitAnalisis

Next == ValidarTransaccion

Spec == Init /\ [][Next]_vars

NextColas ==
    \/ AsignarPrioridad
    \/ ProcesarConPrioridades

SpecColas == Init /\ [][NextColas]_vars

NextHora ==
    \/ GenerarHora
    \/ Etiquetar04
    \/ Etiquetar05
    \/ Etiquetar08
    \/ FiltrarHoraPico06

SpecHora == Init /\ [][NextHora]_vars

NextGen ==
    \/ GenerarUsuario
    \/ GenerarTransaccion

SpecGen == Init /\ [][NextGen]_vars

NextMain ==
    \/ PasoGenerar
    \/ LlamarCargador
    \/ Conectar
    \/ EjecutarBatch
    \/ Commit
    \/ ManejarExcepcion
    \/ Finalmente
    \/ RetornoCargador
    \/ ExcepcionEnMain
    \/ RetornarTrue

SpecMain == Init /\ [][NextMain]_vars

NextProy ==
    \/ CargarDatos
    \/ SimularOptimizaciones06
    \/ VisualizacionBeforeAfter07
    \/ CalcularKpis08

SpecProy == Init /\ [][NextProy]_vars

NextMetricas ==
    \/ RecibirTransacciones
    \/ GenerarMetricasOperativas

SpecMetricas == Init /\ [][NextMetricas]_vars

NextEsquema ==
    \/ ConectarEsquema
    \/ VerificarTablas
    \/ VerificarVistas
    \/ VerificarTriggers
    \/ VerificarIndices
    \/ VerificarFks
    \/ TestInsercion
    \/ ReporteFinal

SpecEsquema == Init /\ [][NextEsquema]_vars

NextEleccion ==
    \/ RecibirUsuarios
    \/ ElegirUsuario

SpecEleccion == Init /\ [][NextEleccion]_vars

NextLote == ProcesarLote

SpecLote == Init /\ [][NextLote]_vars

NextAnalisis ==
    \/ LlamarEjecutarQuery
    \/ ConectarAnalisis
    \/ ConsultaDeMain
    \/ FinalmenteAnalisis

SpecAnalisis == Init /\ [][NextAnalisis]_vars

-----------------------------------------------------------------------------
(* C1: validar_transaccion returns 'aprobada' exactly when the level is
   intermedio or completo, monto_usd <= 10000, score_fraude <= 30 and the
   payment method is transferencia or wallet_crypto; every other transaction
   gets 'revision_manual', and no other resultado is returned. *)
C1_Condiciones ==
    /\ txn.nivel_verificacion \in {"intermedio", "completo"}
    /\ txn.monto_usd <= 10000 * Centesimos
    /\ txn.score_fraude <= 30 * Centesimos
    /\ txn.metodo_pago \in {"transferencia", "wallet_crypto"}

C1_AprobadaSii ==
    resultado # SinResultado =>
        /\ resultado.resultado \in {"aprobada", "revision_manual"}
        /\ (resultado.resultado = "aprobada") <=> C1_Condiciones

C1_Witness ==
    /\ resultado.resultado = "aprobada"
    /\ txn.monto_usd = 10000 * Centesimos
    /\ txn.score_fraude = 30 * Centesimos

-----------------------------------------------------------------------------
(* C2: asignar_prioridad is a total three-bucket classifier: it returns
   'alta_prioridad' exactly when monto_usd > 5000 or the level is completo;
   otherwise 'baja_prioridad' exactly when monto_usd < 100 and the level is
   basico; otherwise 'normal'. *)
C2_Alta ==
    txn_cola.monto_usd > 5000 * Centesimos
    \/ txn_cola.nivel_verificacion = "completo"

C2_Baja ==
    /\ txn_cola.monto_usd < 100 * Centesimos
    /\ txn_cola.nivel_verificacion = "basico"

C2_TresCubetas ==
    txn_cola # SinTxnCola =>
        /\ prioridad \in {"alta_prioridad", "normal", "baja_prioridad"}
        /\ (prioridad = "alta_prioridad") <=> C2_Alta
        /\ (prioridad = "baja_prioridad") <=> (~C2_Alta /\ C2_Baja)
        /\ (prioridad = "normal") <=> (~C2_Alta /\ ~C2_Baja)

C2_Witness ==
    /\ prioridad = "normal"
    /\ txn_cola.monto_usd = 5000 * Centesimos
    /\ txn_cola.nivel_verificacion = "basico"

-----------------------------------------------------------------------------
(* C3: every script uses the same peak hour: an hour h in 0..23 is peak
   exactly when 18 <= h <= 23; the generator's flag, the 'periodo' label of
   scripts 04, 05 and 08 and the hour filter of script 06 agree for every
   h. *)
C3_EsPico == 18 <= hora /\ hora <= 23

C3_MismaHoraPico ==
    /\ hora \in 0..23
    /\ es_hora_pico # Nulo => (es_hora_pico = "True" <=> C3_EsPico)
    /\ periodo_04 # Nulo => (periodo_04 = "Hora Pico" <=> C3_EsPico)
    /\ periodo_05 # Nulo => (periodo_05 = "Hora Pico" <=> C3_EsPico)
    /\ periodo_08 # Nulo => (periodo_08 = "Hora Pico" <=> C3_EsPico)
    /\ en_hora_pico_06 # Nulo => (en_hora_pico_06 = "True" <=> C3_EsPico)

C3_Witness ==
    /\ hora = 23
    /\ es_hora_pico = "True"
    /\ periodo_04 = "Hora Pico"
    /\ periodo_05 = "Hora Pico"
    /\ periodo_08 = "Hora Pico"
    /\ en_hora_pico_06 = "True"

-----------------------------------------------------------------------------
Filas == 1..Len(transacciones)

\* The instant of a timestamp and of a date at 00:00:00, in seconds.
Segundos(ts) == ts.dia * 86400 + ts.hora * 3600 + ts.minuto * 60 + ts.segundo
SegundosDeFecha(dia) == dia * 86400

(* C4: for every generated transaction, requiere_validacion_manual is true
   exactly when monto_usd > 5000; a transaction of exactly 5000 does not
   require validation. *)
C4_ValidacionSiiMayor5000 ==
    \A k \in Filas :
        transacciones[k].requiere_validacion_manual
            <=> (transacciones[k].monto_usd > 5000 * Centesimos)

C4_Witness ==
    /\ \E k \in Filas :
        /\ transacciones[k].monto_usd = 5000 * Centesimos
        /\ ~transacciones[k].requiere_validacion_manual

(* C8: every generated transaction has estado 'exitosa' or 'fallida';
   motivo_fallo is non-null exactly when it is 'fallida', hash_blockchain is
   non-null exactly when it is 'exitosa', and confirmaciones_blockchain is in
   1..12 when 'exitosa' and 0 when 'fallida'. *)
C8_CamposDeResultado ==
    \A k \in Filas :
        LET t == transacciones[k] IN
        /\ t.estado \in {"exitosa", "fallida"}
        /\ (t.motivo_fallo # Nulo) <=> (t.estado = "fallida")
        /\ (t.hash_blockchain # Nulo) <=> (t.estado = "exitosa")
        /\ t.estado = "exitosa" => t.confirmaciones_blockchain \in 1..12
        /\ t.estado = "fallida" => t.confirmaciones_blockchain = 0

C8_Witness ==
    /\ \E k \in Filas :
        /\ transacciones[k].estado = "fallida"
        /\ transacciones[k].motivo_fallo # Nulo
        /\ transacciones[k].confirmaciones_blockchain = 0

(* C9: the timestamp_inicio of every generated transaction is not earlier
   than the fecha_registro of the user it belongs to. *)
C9_DespuesDelRegistro ==
    \A k \in Filas :
        LET t == transacciones[k]
            u == UsuarioDe(usuarios, t.user_id)
        IN Segundos(t.timestamp_inicio) >= SegundosDeFecha(u.fecha_registro)

C9_Witness ==
    /\ \E k \in Filas :
        LET t == transacciones[k]
            u == UsuarioDe(usuarios, t.user_id)
        IN /\ u.fecha_registro > FECHA_INICIO
           /\ Segundos(t.timestamp_inicio) = SegundosDeFecha(u.fecha_registro)

(* C10: the timestamp_inicio of every generated transaction has its date
   inside the analysis period, FECHA_INICIO (2024-07-01) to FECHA_FIN
   (2024-12-31) inclusive, whatever the registration date of its user. *)
C10_DentroDelPeriodo ==
    \A k \in Filas :
        /\ transacciones[k].timestamp_inicio.dia >= FECHA_INICIO
        /\ transacciones[k].timestamp_inicio.dia <= FECHA_FIN

-----------------------------------------------------------------------------
\* The driver calls of the running loader contain the call c.
Llamo(c) == \E k \in 1..Len(llamadas_db) : llamadas_db[k] = c

\* The loader that was called has run to its end.
CargadorTerminado ==
    /\ cargador # Nulo
    /\ pc_carga \in {"retornada", "propagada", "inactivo"}

(* C5: in each of the three loaders, when the insert or the commit raises,
   the open transaction is rolled back, the same exception reaches the
   caller, and cursor and connection are closed; cursor and connection are
   closed on the success path too. *)
C5_RollbackRelanzaCierra ==
    /\ lanzada # Nulo => lanzada \in {"execute_batch", "commit"}
    /\ (CargadorTerminado /\ lanzada # Nulo) =>
          /\ Llamo("rollback")
          /\ llamadas_db[Len(llamadas_db) - 2] = "rollback"
          /\ pendientes = 0
          /\ propagada = lanzada
          /\ cursor = "cerrado"
          /\ conexion = "cerrada"
    /\ (CargadorTerminado /\ propagada = Nulo) =>
          /\ lanzada = Nulo
          /\ cursor = "cerrado"
          /\ conexion = "cerrada"
    /\ pc_carga = "retornada" => propagada = Nulo
    /\ pc_carga = "propagada" => propagada # Nulo

C5_Witness ==
    /\ pc_carga = "propagada"
    /\ cargador = "transacciones"
    /\ lanzada = "commit"
    /\ propagada = "commit"
    /\ tabla["transacciones"] = batch_size
    /\ conexion = "cerrada"

(* C7: main runs generar_usuarios, generar_transacciones,
   generar_metricas_operativas, the CSV backup, cargar_usuarios_db,
   cargar_transacciones_db, cargar_metricas_db in this order; a step starts
   only after every earlier step finished without exception, so no
   transaction row is inserted before all users are committed; main returns
   True exactly when all steps completed, and returns False, without raising
   and without running a later step, as soon as a step raises. *)
C7_Orden ==
    <<"generar_usuarios", "generar_transacciones",
      "generar_metricas_operativas", "guardar_csv",
      "cargar_usuarios_db", "cargar_transacciones_db", "cargar_metricas_db">>

C7_OrdenEstricto ==
    /\ Len(pasos) <= 7
    /\ \A k \in 1..Len(pasos) :
        /\ pasos[k].paso = C7_Orden[k]
        /\ k < Len(pasos) => pasos[k].estado = "ok"
        /\ pasos[k].estado = "error" =>
              /\ pc_main = "fin"
              /\ retorno_main = "False"
    /\ (tabla["transacciones"] > 0
          \/ (cargador = "transacciones" /\ pendientes > 0)) =>
          /\ Len(pasos) >= 6
          /\ tabla["usuarios"] = n_filas["usuarios"]
    /\ (retorno_main = "True") <=>
          /\ pc_main = "fin"
          /\ Len(pasos) = 7
          /\ \A k \in 1..7 : pasos[k].estado = "ok"
    /\ (retorno_main = "False") <=>
          /\ pc_main = "fin"
          /\ Len(pasos) >= 1
          /\ pasos[Len(pasos)].estado = "error"
    /\ pc_main = "fin" => retorno_main \in {"True", "False"}

C7_Witness ==
    /\ retorno_main = "True"
    /\ tabla["usuarios"] = 3
    /\ tabla["transacciones"] = 2 * batch_size + 1
    /\ tabla["metricas"] = 2

\* after = before * (m / k), both sides exact; NaN only for NaN.
EsProducto(after, before, m, k) ==
    IF before = NaN \/ after = NaN THEN after = before
    ELSE after[1] * before[2] * k = before[1] * after[2] * m

Simulado06 == comparativa_06 # SinComparativa
Proyectado07 == proyeccion_07 # SinProyeccion
Calculado08 == kpis_08 # SinKpis

\* 07 and 08: every AFTER figure is its BEFORE figure times a fixed factor.
FactoresFijos0708 ==
    /\ Proyectado07 =>
          /\ EsProducto(proyeccion_07.tiempo_promedio_optimizado,
                        proyeccion_07.tiempo_promedio_actual, 773, 1000)
          /\ EsProducto(proyeccion_07.tasa_error_optimizada,
                        proyeccion_07.tasa_error_actual, 533, 1000)
    /\ Calculado08 =>
          LET a == kpis_08.after
              b == kpis_08.before
          IN /\ EsProducto(a.total_transacciones, b.total_transacciones,
                           112, 100)
             /\ a.usuarios_activos = b.usuarios_activos
             /\ EsProducto(a.volumen_usd, b.volumen_usd, 110, 100)
             /\ a.ticket_promedio = b.ticket_promedio
             /\ EsProducto(a.tiempo_promedio, b.tiempo_promedio, 773, 1000)
             /\ EsProducto(a.tasa_error, b.tasa_error, 533, 1000)
             /\ EsProducto(a.comisiones, b.comisiones, 110, 100)

(* C6 as stated: in the projections of 06, 07 and 08 each AFTER value is the
   BEFORE value times a hard-coded factor that depends neither on the loaded
   transactions nor on the validator's results; for 06 the hard-coded
   reduction is 22%. *)
C6_FactorFijo ==
    /\ FactoresFijos0708
    /\ Simulado06 =>
          /\ EsProducto(comparativa_06.tiempo_promedio_optimizado,
                        comparativa_06.tiempo_promedio_actual, 78, 100)
          /\ EsProducto(comparativa_06.tiempo_total_optimizado,
                        comparativa_06.tiempo_total_actual, 78, 100)

(* C6 amended: in 07 and 08 each AFTER value is the BEFORE value times a
   hard-coded factor.  In 06 the factor is 1 - reduccion_porcentaje, and
   reduccion_porcentaje is the hard-coded 0.22 only when the validator
   processed no transaction; otherwise it is
   0.15 + 0.20 * aprobadas_automaticamente / procesadas, which depends on the
   validator's results. *)
C6_FactorSegunValidador ==
    /\ FactoresFijos0708
    /\ Simulado06 =>
          LET p == stats.procesadas
              a == stats.aprobadas_automaticamente
              m == IF p > 0 THEN 85 * p - 20 * a ELSE 78
              k == IF p > 0 THEN 100 * p ELSE 100
          IN /\ EsProducto(comparativa_06.tiempo_promedio_optimizado,
                           comparativa_06.tiempo_promedio_actual, m, k)
             /\ EsProducto(comparativa_06.tiempo_total_optimizado,
                           comparativa_06.tiempo_total_actual, m, k)

\* 06 ran on two rows that required validation, one of them approved: the
\* reduction is 25%, and 07 and 08 ran on the same rows.
C6_Witness ==
    /\ Simulado06
    /\ Proyectado07
    /\ Calculado08
    /\ stats.procesadas = 2
    /\ stats.aprobadas_automaticamente = 1
    /\ comparativa_06.tiempo_promedio_actual = <<150, 1>>
    /\ comparativa_06.reduccion_porcentaje = <<1, 4>>
    /\ comparativa_06.tiempo_promedio_optimizado = <<225, 2>>
    /\ kpis_08.after.tiempo_promedio = <<2319, 20>>

-----------------------------------------------------------------------------
(* C11: every generated transaction carries the user_id of a generated user,
   and the estado_cuenta of that user is 'activa': no transaction is generated
   for a 'suspendida' or 'cerrada' account. *)
C11_UsuarioActivo ==
    \A k \in Filas :
        /\ \E j \in 1..Len(usuarios) :
              usuarios[j].user_id = transacciones[k].user_id
        /\ \A j \in 1..Len(usuarios) :
              usuarios[j].user_id = transacciones[k].user_id
                  => usuarios[j].estado_cuenta = "activa"

C11_Witness ==
    /\ Len(transacciones) = MaxTransacciones
    /\ \E j \in 1..Len(usuarios) :
          /\ usuarios[j].user_id = transacciones[1].user_id
          /\ usuarios[j].estado_cuenta = "activa"
          /\ usuarios[j].nivel_verificacion = "basico"

(* C12: the failure threshold of a transaction is 5% plus 10% when its hour
   is in 18..23 plus 5% when monto_usd > 5000, so it is 5, 10, 15 or 20
   percent, and in the peak hours it is strictly higher than the threshold of
   an off-peak transaction with the same validation flag. *)
C12_UmbralDeFallo ==
    Len(transacciones) > 0 =>
        LET t == transacciones[Len(transacciones)]
            pico == t.timestamp_inicio.hora \in 18..23
            alto == t.monto_usd > 5000 * Centesimos
            fuera_de_pico == IF alto THEN 10 ELSE 5
        IN /\ tasa_base_error =
                 fuera_de_pico + (IF pico THEN 10 ELSE 0)
           /\ tasa_base_error \in {5, 10, 15, 20}
           /\ pico => tasa_base_error > fuera_de_pico
           /\ ~pico => tasa_base_error = fuera_de_pico

C12_Witness ==
    /\ Len(transacciones) > 0
    /\ transacciones[Len(transacciones)].timestamp_inicio.hora = 18
    /\ transacciones[Len(transacciones)].requiere_validacion_manual
    /\ transacciones[Len(transacciones)].estado = "exitosa"
    /\ tasa_base_error = 20

(* C13: for every row of generar_metricas_operativas,
   num_transacciones_exitosas + num_transacciones_fallidas =
   num_transacciones = num_compra + num_venta + num_swap + num_retiro (as
   cargar_metricas_db reads them); there is exactly one row per (fecha, hora)
   that has a transaction; and num_transacciones summed over the rows is the
   number of input transactions. *)
MetricasGeneradas == df_metricas # <<>>

FilasMetricas == 1..Len(df_metricas)

RECURSIVE SumaNumTransacciones(_)
SumaNumTransacciones(k) ==
    IF k = 0 THEN 0
    ELSE df_metricas[k].num_transacciones + SumaNumTransacciones(k - 1)

C13_SumasDeMetricas ==
    MetricasGeneradas =>
        /\ \A k \in FilasMetricas :
              LET row == df_metricas[k] IN
              /\ row.num_transacciones_exitosas
                    + row.num_transacciones_fallidas = row.num_transacciones
              /\ row_get(row, "num_compra", 0) + row_get(row, "num_venta", 0)
                    + row_get(row, "num_swap", 0)
                    + row_get(row, "num_retiro", 0) = row.num_transacciones
              /\ row.num_transacciones >= 1
        /\ \A j, k \in FilasMetricas :
              (df_metricas[j].fecha = df_metricas[k].fecha
                  /\ df_metricas[j].hora = df_metricas[k].hora) => j = k
        /\ \A i \in 1..Len(df_transacciones) :
              \E k \in FilasMetricas :
                  /\ df_metricas[k].fecha
                        = df_transacciones[i].timestamp_inicio.dia
                  /\ df_metricas[k].hora
                        = df_transacciones[i].timestamp_inicio.hora
        /\ \A k \in FilasMetricas :
              \E i \in 1..Len(df_transacciones) :
                  /\ df_metricas[k].fecha
                        = df_transacciones[i].timestamp_inicio.dia
                  /\ df_metricas[k].hora
                        = df_transacciones[i].timestamp_inicio.hora
        /\ SumaNumTransacciones(Len(df_metricas)) = Len(df_transacciones)

\* Two transactions of one hour, one of them failed, give one row of two.
C13_Witness ==
    /\ Len(df_transacciones) = 2
    /\ Len(df_metricas) = 1
    /\ df_metricas[1].num_transacciones = 2
    /\ df_metricas[1].num_transacciones_fallidas = 1
    /\ row_get(df_metricas[1], "num_swap", 0) = 1
    /\ "num_retiro" \notin DOMAIN df_metricas[1]

(* C14: verificar_schemas reports 'SCHEMA VALIDO' if and only if all six
   checks pass: every expected table, view, trigger, index of each table and
   foreign key is among those found in the database (more objects may exist)
   and the insertion test succeeded; if any check fails it reports
   'SCHEMA INCOMPLETO'. *)
C14_TodoEncontrado ==
    /\ \A t \in EXPECTED_TABLES : t \in encontrado.tables
    /\ \A v \in EXPECTED_VIEWS : v \in encontrado.views
    /\ \A g \in EXPECTED_TRIGGERS : g \in encontrado.triggers
    /\ \A t \in {"usuarios", "transacciones"} :
          /\ t \in DOMAIN encontrado.index_map
          /\ \A i \in EXPECTED_INDEXES[t] : i \in encontrado.index_map[t]
    /\ \A f \in EXPECTED_FKS : f \in encontrado.fks
    /\ encontrado.insercion = "ok"

C14_ValidoSiiSeisChecks ==
    /\ pc_esquema = "fin" =>
          /\ reporte \in {"SCHEMA VALIDO", "SCHEMA INCOMPLETO"}
          /\ (reporte = "SCHEMA VALIDO") <=> C14_TodoEncontrado
          /\ (reporte = "SCHEMA INCOMPLETO") <=> ~C14_TodoEncontrado
    /\ pc_esquema # "fin" => reporte = Nulo

\* A valid schema with one table, index and foreign key more than expected.
C14_Witness ==
    /\ pc_esquema = "fin"
    /\ reporte = "SCHEMA VALIDO"
    /\ "spatial_ref_sys" \in encontrado.tables
    /\ "validaciones" \in DOMAIN encontrado.index_map
    /\ encontrado.fks # EXPECTED_FKS

(* C15: users with a higher verification level make more transactions: the
   choice of the user of a transaction depends on nivel_verificacion and
   favours 'intermedio' and 'completo' users over 'basico' users, that is, an
   active user of a higher level is more likely to be chosen than an active
   'basico' user. *)
C15_FavoreceNivelSuperior ==
    candidatos # <<>> =>
        \A b, v \in 1..Len(df_usuarios) :
            (/\ df_usuarios[b].estado_cuenta = "activa"
             /\ df_usuarios[v].estado_cuenta = "activa"
             /\ df_usuarios[b].nivel_verificacion = "basico"
             /\ df_usuarios[v].nivel_verificacion
                   \in {"intermedio", "completo"})
            => Veces(candidatos, df_usuarios[v].user_id)
                   > Veces(candidatos, df_usuarios[b].user_id)

(* C16: validar_transaccion evaluates its rules in the order level, amount,
   fraud score, payment method and stops at the first that fails: the motivo
   names the first failing rule in that order even when later rules fail too,
   so a 'basico' user with monto_usd > 10000 gets the level motivo. *)
C16_FallaNivel == txn.nivel_verificacion \notin {"intermedio", "completo"}
C16_FallaMonto == txn.monto_usd > 10000 * Centesimos
C16_FallaScore == txn.score_fraude > 30 * Centesimos
C16_FallaMetodo == txn.metodo_pago \notin {"transferencia", "wallet_crypto"}

C16_PrimerMotivo ==
    resultado # SinResultado =>
        /\ C16_FallaNivel =>
              resultado.motivo = "Nivel de usuario insuficiente"
        /\ (~C16_FallaNivel /\ C16_FallaMonto) =>
              resultado.motivo = "Monto excede limite automatico"
        /\ (~C16_FallaNivel /\ ~C16_FallaMonto /\ C16_FallaScore) =>
              resultado.motivo = "Score de fraude alto"
        /\ (~C16_FallaNivel /\ ~C16_FallaMonto /\ ~C16_FallaScore
                /\ C16_FallaMetodo) =>
              resultado.motivo = "Metodo de pago requiere revision"
        /\ (~C16_FallaNivel /\ ~C16_FallaMonto /\ ~C16_FallaScore
                /\ ~C16_FallaMetodo) =>
              resultado.motivo = "Validacion automatica exitosa"

C16_Witness ==
    /\ txn.nivel_verificacion = "basico"
    /\ txn.monto_usd > 10000 * Centesimos
    /\ txn.score_fraude > 30 * Centesimos
    /\ txn.metodo_pago = "tarjeta"
    /\ resultado.motivo = "Nivel de usuario insuficiente"

(* C17: after any sequence of validar_transaccion calls, procesadas =
   aprobadas_automaticamente + requieren_revision_manual and
   rechazadas_automaticamente is 0; each call increases procesadas by exactly
   1 and exactly one of the other two counters by 1. *)
C17_Suma ==
    /\ stats.procesadas =
          stats.aprobadas_automaticamente + stats.requieren_revision_manual
    /\ stats.rechazadas_automaticamente = 0

C17_UnaLlamada ==
    /\ stats'.procesadas = stats.procesadas + 1
    /\ \/ /\ stats'.aprobadas_automaticamente
                = stats.aprobadas_automaticamente + 1
          /\ stats'.requieren_revision_manual
                = stats.requieren_revision_manual
       \/ /\ stats'.aprobadas_automaticamente
                = stats.aprobadas_automaticamente
          /\ stats'.requieren_revision_manual
                = stats.requieren_revision_manual + 1
    /\ stats'.rechazadas_automaticamente = 0

C17_Contadores == []C17_Suma /\ [][C17_UnaLlamada]_vars

C17_Witness ==
    /\ stats.procesadas = 3
    /\ stats.aprobadas_automaticamente = 1
    /\ stats.requieren_revision_manual = 2

(* C18: after any sequence of validar_transaccion calls, tiempo_ahorrado =
   295 * aprobadas_automaticamente, and the returned tiempo is 5 when
   resultado is 'aprobada' and 300 when it is 'revision_manual'. *)
C18_Tiempos ==
    /\ stats.tiempo_ahorrado = 295 * stats.aprobadas_automaticamente
    /\ resultado # SinResultado =>
          /\ resultado.resultado = "aprobada" => resultado.tiempo = 5
          /\ resultado.resultado = "revision_manual" => resultado.tiempo = 300

C18_Witness ==
    /\ stats.aprobadas_automaticamente = 2
    /\ stats.tiempo_ahorrado = 590
    /\ resultado.resultado = "aprobada"
    /\ resultado.tiempo = 5

(* C19: procesar_lote returns exactly one result row per input transaction,
   in input order, each with the transaction_id of its input row and the
   resultado, motivo and tiempo that validar_transaccion returns for that
   row; it increases procesadas by the number of rows of the batch. *)
C19_UnaFilaPorTransaccion ==
    /\ Len(resultados) = Len(lote_validador)
    /\ \A k \in 1..Len(lote_validador) :
          LET fila == lote_validador[k] IN
          /\ resultados[k].transaction_id = fila.transaction_id
          /\ resultados[k].resultado = validar_retorno(fila).resultado
          /\ resultados[k].motivo = validar_retorno(fila).motivo
          /\ resultados[k].tiempo = validar_retorno(fila).tiempo
          /\ DOMAIN resultados[k] =
                {"transaction_id", "resultado", "motivo", "tiempo"}

C19_CuentaElLote ==
    stats'.procesadas = stats.procesadas + Len(lote_validador')

C19_ProcesarLote ==
    []C19_UnaFilaPorTransaccion /\ [][C19_CuentaElLote]_vars

\* A second call, of two rows with descending transaction_id, the first
\* approved and the second sent to manual review.
C19_Witness ==
    /\ Len(lote_validador) = 2
    /\ stats.procesadas = 3
    /\ lote_validador[1].transaction_id = 17
    /\ lote_validador[2].transaction_id = 4
    /\ resultados[1].transaction_id = 17
    /\ resultados[1].resultado = "aprobada"
    /\ resultados[2].transaction_id = 4
    /\ resultados[2].resultado = "revision_manual"

(* C20: the queues of an OptimizadorHoraPico are never emptied:
   procesar_con_prioridades only appends.  After the calls with batches B1 and
   then B2 on one instance, the 'distribucion' and 'tiempo_total' of the second
   call count the transactions of B1 and B2 together, so the result of a call
   depends on all earlier calls on the instance. *)
C20_EsPrefijo(a, b) ==
    /\ Len(a) <= Len(b)
    /\ \A i \in 1..Len(a) : b[i] = a[i]

C20_CuentaTodaLaCola ==
    /\ \A p \in Prioridades : retorno_colas.distribucion[p] = Len(colas[p])
    /\ retorno_colas.tiempo_total =
          30 * Len(colas["alta_prioridad"]) + 45 * Len(colas["normal"])
          + 60 * Len(colas["baja_prioridad"])

C20_SoloAgrega ==
    /\ \A p \in Prioridades : C20_EsPrefijo(colas[p], colas'[p])
    /\ (colas' # colas \/ lote_cola' # lote_cola) =>
          /\ Len(colas'["alta_prioridad"]) + Len(colas'["normal"])
                + Len(colas'["baja_prioridad"])
             = Len(colas["alta_prioridad"]) + Len(colas["normal"])
                + Len(colas["baja_prioridad"]) + Len(lote_cola')
          /\ retorno_colas'.distribucion["alta_prioridad"]
                + retorno_colas'.distribucion["normal"]
                + retorno_colas'.distribucion["baja_prioridad"]
             = retorno_colas.distribucion["alta_prioridad"]
                + retorno_colas.distribucion["normal"]
                + retorno_colas.distribucion["baja_prioridad"]
                + Len(lote_cola')

C20_ColasNuncaVaciadas ==
    []C20_CuentaTodaLaCola /\ [][C20_SoloAgrega]_vars

\* The second of two calls of one row each: its result counts both rows.
C20_Witness ==
    /\ Len(lote_cola) = 1
    /\ asignar_prioridad(lote_cola[1]) = "normal"
    /\ Len(colas["alta_prioridad"]) = 1
    /\ colas["normal"] = lote_cola
    /\ retorno_colas.distribucion["alta_prioridad"] = 1
    /\ retorno_colas.distribucion["normal"] = 1
    /\ retorno_colas.tiempo_total = 75

\* The number of execute_batch calls the loader being run has made: the
\* number k of the batch its last call sent.
LotesEnviados == Veces(llamadas_db, "execute_batch")

(* C21: cargar_transacciones_db commits after every batch of 5000 rows, so
   when the insert of batch k raises, the rows of batches 1..k-1, and only
   they, are committed: no row of batch k or of a later batch is, the rows
   sent for batch k are rolled back, and the exception of the insert leaves
   the function.  Committed rows are never taken back, so a load that
   fails after its first batch is partial. *)
C21_LotesAnterioresQuedan ==
    (cargador = "transacciones" /\ lanzada = "execute_batch") =>
        /\ LotesEnviados >= 1
        /\ tabla["transacciones"] = (LotesEnviados - 1) * batch_size
        /\ tabla["transacciones"] < n_filas["transacciones"]
        /\ pc_carga # "retornada"
        /\ CargadorTerminado =>
              /\ propagada = "execute_batch"
              /\ pendientes = 0
              /\ Llamo("rollback")

C21_NoSeDeshace ==
    tabla'["transacciones"] >= tabla["transacciones"]

C21_CommitPorLote ==
    []C21_LotesAnterioresQuedan /\ [][C21_NoSeDeshace]_vars

\* The insert of the third batch of 10001 rows raised: 10000 rows stay.
C21_Witness ==
    /\ cargador = "transacciones"
    /\ pc_carga = "propagada"
    /\ propagada = "execute_batch"
    /\ n_filas["transacciones"] = 2 * batch_size + 1
    /\ LotesEnviados = 3
    /\ tabla["transacciones"] = 2 * batch_size
    /\ Llamo("rollback")

(* C22: cargar_usuarios_db and cargar_metricas_db are all-or-nothing.  Each
   makes one commit, after its one execute_batch call sent every row; when
   the function returns all rows of its input are committed, and when an
   exception leaves it none is.  At no moment is a part of the rows
   committed. *)
C22_TodoONada ==
    /\ \A t \in {"usuarios", "metricas"} : tabla[t] \in {0, n_filas[t]}
    /\ cargador \in {"usuarios", "metricas"} =>
          /\ Veces(llamadas_db, "commit") <= 1
          /\ Veces(llamadas_db, "execute_batch") <= 1
          /\ Llamo("commit") =>
                /\ Llamo("execute_batch")
                /\ pendientes \in {0, n_filas[cargador]}
          /\ pc_carga = "retornada" =>
                /\ tabla[cargador] = n_filas[cargador]
                /\ tabla[cargador] > 0
                /\ Veces(llamadas_db, "commit") = 1
                /\ pendientes = 0
          /\ pc_carga = "propagada" =>
                /\ tabla[cargador] = 0
                /\ pendientes = 0

\* cargar_usuarios_db returned with its 3 rows committed; cargar_metricas_db
\* raised in execute_batch and left no row.
C22_Witness ==
    /\ cargador = "metricas"
    /\ pc_carga = "propagada"
    /\ propagada = "execute_batch"
    /\ n_filas["metricas"] = 2
    /\ tabla["metricas"] = 0
    /\ n_filas["usuarios"] = 3
    /\ tabla["usuarios"] = 3

(* C24: the insertion test of verificar_schemas leaves the tables as they
   were.  Whether both test inserts succeed or one of them raises, the last
   statement of the test is ROLLBACK, no row of the test stays in the open
   transaction, and from the connection to the end of the script the
   committed rows of usuarios and transacciones are those the script met:
   neither the test_user row nor the test transaction is among them. *)
C24_TablasSinCambio ==
    /\ pc_esquema # "connect" =>
          /\ db.usuarios = db_antes.usuarios
          /\ db.transacciones = db_antes.transacciones
    /\ pc_esquema \in {"reporte", "fin"} =>
          /\ encontrado.insercion \in ResultadosInsercion
          /\ sentencias[1] = "BEGIN"
          /\ sentencias[2] = "INSERT usuarios"
          /\ sentencias[Len(sentencias)] = "ROLLBACK"
          /\ db.sin_confirmar = SinFilas
          /\ ~db.abortada
          /\ \A u \in db.usuarios : u.username # "test_user"
          /\ Cardinality(db.transacciones)
                = Cardinality(db_antes.transacciones)

\* Both inserts succeeded on tables of one row each, and the script ended.
C24_Witness ==
    /\ pc_esquema = "fin"
    /\ encontrado.insercion = "ok"
    /\ Len(sentencias) = 4
    /\ sentencias[3] = "INSERT transacciones"
    /\ db_antes.usuarios = {[user_id |-> 1, username |-> "ana"]}
    /\ db_antes.transacciones = {[transaction_id |-> 1, user_id |-> 1]}
    /\ db.usuarios = db_antes.usuarios
    /\ db.transacciones = db_antes.transacciones

\* The contract of one call of ejecutar_query_y_exportar.
C23_LlamadaSinPropagar(r) ==
    /\ r.propagada = Nulo
    /\ \A k \in 1..Len(r.llamadas) : r.llamadas[k] # "rollback"
    /\ r.llamadas[1] = "read_sql_query"
    /\ r.atrapada # Nulo => (r.retorno = Nulo /\ r.csv = Nulo)
    /\ r.atrapada = Nulo =>
          /\ r.retorno = "df"
          /\ r.csv # Nulo <=> (r.exportar_csv /\ r.filas > 0)
          /\ r.csv # Nulo => r.csv = filename(r.nombre_query)

(* C23: ejecutar_query_y_exportar lets no exception out: when the query or
   the export raises it returns None, with no rollback and no re-raise;
   otherwise it returns the result, and it writes the CSV exactly when
   exportar_csv is true and the result has a row.  So main, once connected,
   calls it for its five queries in their order whatever the earlier calls
   returned, no exception leaves main, and main ends with conn closed. *)
C23_NuncaPropaga ==
    /\ llamada # SinLlamada => C23_LlamadaSinPropagar(llamada)
    /\ \A k \in 1..Len(intentadas) :
          /\ C23_LlamadaSinPropagar(intentadas[k])
          /\ intentadas[k].nombre_query = Queries[k]
          /\ intentadas[k].exportar_csv
    /\ pc_analisis # "except"
    /\ (pc_analisis = "fin" /\ conn # "ninguna") =>
          /\ Len(intentadas) = Len(Queries)
          /\ conn = "cerrada"
          /\ llamadas_03[Len(llamadas_03)] = "close"
          /\ propagada_03 = Nulo
    /\ (pc_analisis = "fin" /\ conn = "ninguna") =>
          /\ propagada_03 = "connect"
          /\ intentadas = <<>>

\* The first query raised and the export of the second did; the last three
\* calls were made all the same and the fifth wrote its file.
C23_Witness ==
    /\ pc_analisis = "fin"
    /\ conn = "cerrada"
    /\ Len(intentadas) = 5
    /\ intentadas[1].atrapada = "read_sql_query"
    /\ intentadas[1].retorno = Nulo
    /\ intentadas[2].atrapada = "to_csv"
    /\ intentadas[2].retorno = Nulo
    /\ intentadas[4].retorno = "df"
    /\ intentadas[4].filas = 0
    /\ intentadas[4].csv = Nulo
    /\ intentadas[5].retorno = "df"
    /\ intentadas[5].csv = "data/processed/analisis_motivos_de_fallo.csv"

=============================================================================
